---------------------------- MODULE Spec2Model ----------------------------
(***************************************************************************)
(* Method-Grill backend: the in-memory rate limiter, the JWT               *)
(* authentication / authorization middleware, the user controller and the  *)
(* timeout / retry helpers, as state machines.                             *)
(*                                                                         *)
(* The module holds several specifications over one set of variables; each *)
(* one drives a single component and leaves the other variables alone:     *)
(*   SpecRate   middlewares/authMiddleware.js  rateLimit                   *)
(*   SpecRetry  utils timeout handler          withTimeout, withRetry,     *)
(*                                             dbOperationWithTimeout      *)
(*   SpecAuthn  middleware, routes, controllers with every kind of          *)
(*              Authorization header                                       *)
(*   SpecUsers  the same with every kind of registration and login body     *)
(*   SpecRace   the user routes, two requests at a time                     *)
(*   SpecAccounts  the user routes while accounts change in the database   *)
(*   SpecMenu   the admin menu routes, two requests at a time              *)
(*   SpecLife   create, list, get and delete of menu items                 *)
(*   SpecList   the public menu routes with every kind of query            *)
(*   SpecPrice  create and update of menu items with every kind of price   *)
(*   SpecAdmin  the user routes with bodies that ask for the admin role     *)
(***************************************************************************)
EXTENDS Integers, Sequences, FiniteSets, TLC

VARIABLES
    \* ---- rate limiter ----
    maxRequests,    \* rateLimit's first parameter, fixed when the middleware is built
    windowMs,       \* rateLimit's second parameter
    now,            \* Date.now(), in milliseconds
    rateLimiter,    \* the module-level Map: clientIP -> sequence of timestamps
    calls,          \* history: one record per call of the middleware, in order
    \* ---- timeout / retry helpers ----
    call,           \* the helper that was called and its arguments
    clock,          \* time in milliseconds since the helper was called
    retryI,         \* withRetry's loop variable i
    pc,             \* where the wrapped promise stands: idle, calling, backoff, returned, thrown
    due,            \* when the pending operation or backoff timer settles
    opStart,        \* when the operation in flight was invoked
    lastError,      \* withRetry's lastError (the failure's status; NoError before any)
    timer,          \* withTimeout's timer: none, armed, fired
    invocations,    \* history: one record per finished invocation of the operation
    settled,        \* how the wrapped promise (withRetry's, or the raw one) settled
    outcome,        \* what the caller of the helper received
    \* ---- HTTP API ----
    users,          \* the users collection, in insertion order (id = position)
    menus,          \* the menus collection
    tokens,         \* history: the tokens the server has issued
    apiNow,         \* the date, in days
    req,            \* per connection: the request in flight and where its handler stands
    resp,           \* history: the last response sent, with the request it answers
    scope           \* which inputs the clients draw from (fixed in a behaviour)

rateVars == <<maxRequests, windowMs, now, rateLimiter, calls>>

retryVars == <<call, clock, retryI, pc, due, opStart, lastError, timer, invocations,
               settled, outcome>>

apiVars == <<users, menus, tokens, apiNow, req, resp, scope>>

vars == <<rateVars, retryVars, apiVars>>

\* a step of one component leaves the other components' variables alone
RateFrame == UNCHANGED <<retryVars, apiVars>>
RetryFrame == UNCHANGED <<rateVars, apiVars>>
ApiFrame == UNCHANGED <<rateVars, retryVars>>

(***************************************************************************)
(* Bounds of the model.                                                    *)
(***************************************************************************)
MaxCalls == 4         \* calls of the rate-limit middleware in one behaviour
MaxClockSteps == 3    \* the clock runs from 0 to MaxClockSteps seconds
MaxLimit == 2         \* maxRequests ranges over 1..MaxLimit
MaxRetriesBound == 3  \* withRetry's maxRetries ranges over 1..MaxRetriesBound
MaxApiDays == 7       \* the date runs from day 0 to day MaxApiDays

Clients == {"ip1", "ip2"}
Windows == {1000, 1500}     \* values of windowMs
Deltas == {500, 1000}       \* the clock advances by one of these
\* the date advances by one of these numbers of days
ApiDeltas == IF scope = "accounts" THEN {5} ELSE {7}

(***************************************************************************)
(* Rate limiter.                                                           *)
(***************************************************************************)
CeilDiv(a, b) == (a + b - 1) \div b

\* requests.filter(time => time > windowStart)
Fresh(requests, windowStart) ==
    SelectSeq(requests, LAMBDA time : time > windowStart)

MapSet(map, key, value) ==
    [k \in (DOMAIN map) \cup {key} |-> IF k = key THEN value ELSE map[k]]

\* "Clean old entries": only when the client already has an entry
CleanOld(map, clientIP, windowStart) ==
    IF clientIP \in DOMAIN map
    THEN MapSet(map, clientIP, Fresh(map[clientIP], windowStart))
    ELSE map

\* rateLimiter.get(clientIP) || []
CurrentRequests(map, clientIP) ==
    IF clientIP \in DOMAIN map THEN map[clientIP] ELSE << >>

\* (mutant) the comparison off by one
LimitedOffByOne(currentRequests, limit) == Len(currentRequests) > limit

\* currentRequests.length >= maxRequests
Limited(currentRequests, limit) == Len(currentRequests) >= limit

\* retryAfter: Math.ceil(windowMs / 1000), in seconds
RetryAfter(window) == CeilDiv(window, 1000)

\* (mutant) a rejected call is recorded all the same
RejectRecording(cleaned, clientIP, currentRequests, time) ==
    MapSet(cleaned, clientIP, Append(currentRequests, time))

\* the map after a rejected call: the 429 branch returns before the push
AfterReject(cleaned, clientIP, currentRequests, time) == cleaned

\* currentRequests.push(now); rateLimiter.set(clientIP, currentRequests)
AfterAllow(cleaned, clientIP, currentRequests, time) ==
    MapSet(cleaned, clientIP, Append(currentRequests, time))

\* one call of the middleware returned by rateLimit(maxRequests, windowMs)
rateLimit(clientIP) ==
    /\ Len(calls) < MaxCalls
    /\ LET windowStart == now - windowMs
           cleaned == CleanOld(rateLimiter, clientIP, windowStart)
           currentRequests == CurrentRequests(cleaned, clientIP)
       IN  IF Limited(currentRequests, maxRequests)
           THEN /\ rateLimiter' = AfterReject(cleaned, clientIP, currentRequests, now)
                /\ calls' = Append(calls, [client |-> clientIP, at |-> now,
                                           status |-> 429, next |-> FALSE,
                                           retryAfter |-> RetryAfter(windowMs)])
           ELSE /\ rateLimiter' = AfterAllow(cleaned, clientIP, currentRequests, now)
                /\ calls' = Append(calls, [client |-> clientIP, at |-> now,
                                           status |-> 0, next |-> TRUE,
                                           retryAfter |-> 0])
    /\ UNCHANGED <<maxRequests, windowMs, now>>
    /\ RateFrame

\* time passes between two requests
RateTick ==
    /\ \E d \in Deltas :
          /\ now + d <= MaxClockSteps * 1000
          /\ now' = now + d
    /\ UNCHANGED <<maxRequests, windowMs, rateLimiter, calls>>
    /\ RateFrame

RateInit ==
    /\ maxRequests \in 1..MaxLimit
    /\ windowMs \in Windows
    /\ now = 0
    /\ rateLimiter = [k \in {} |-> << >>]
    /\ calls = << >>

RateNext ==
    \/ \E clientIP \in Clients : rateLimit(clientIP)
    \/ RateTick

(***************************************************************************)
(* Timeout and retry helpers.                                              *)
(*                                                                         *)
(* An invocation of the wrapped operation takes one of Durations and then  *)
(* settles with a value or with an error.  An error is modelled by its     *)
(* status property (NoStatus: the error carries none).  Timers and         *)
(* operations settle in the order of their due times; two that are due at  *)
(* the same time settle in either order.                                   *)
(***************************************************************************)
NoStatus == 0
NoError == -1
Never == -1

ErrorStatuses == {NoStatus, 399, 400, 499, 500}
Durations == {0, 700, 20000}
Delays == {500, 1000}
Timeouts == {1000, 25000}

DefaultTimeoutMessage == "Operation timeout"
DbTimeoutMessage == "Database operation timeout"

\* dbOperationWithTimeout's arguments to withRetry and its default timeoutMs
DbMaxRetries == 2
DbDelay == 500
DbTimeoutMs == 20000

Pending == [kind |-> "pending", value |-> 0, status |-> NoError,
            message |-> "", at |-> Never]

Value(v, t) == [kind |-> "value", value |-> v, status |-> NoError,
                message |-> "", at |-> t]

Failure(status, t) == [kind |-> "error", value |-> 0, status |-> status,
                       message |-> "", at |-> t]

Timeout(message, t) == [kind |-> "timeout", value |-> 0, status |-> NoStatus,
                        message |-> message, at |-> t]

\* (mutant) 400 itself is retried
IsClientErrorAbove400(status) ==
    status # NoStatus /\ status > 400 /\ status < 500

\* error.status && error.status >= 400 && error.status < 500
IsClientError(status) ==
    status # NoStatus /\ status >= 400 /\ status < 500

\* (mutant) the attempt counted from 1
BackoffFromOne(delay, attempt) == delay * 2 ^ (attempt + 1)

\* delay * Math.pow(2, i)
Backoff(delay, attempt) == delay * 2 ^ attempt

\* (mutant) maxRetries retries after the first invocation
LoopContinuesInclusive(attempt, maxRetries) == attempt <= maxRetries

\* the for loop's condition: i < maxRetries
LoopContinues(attempt, maxRetries) == attempt < maxRetries

\* the wait is skipped after the last attempt: i < maxRetries - 1
WaitsBeforeRetry(attempt, maxRetries) == attempt < maxRetries - 1

\* (mutant) the promise that settles last wins
RaceLastWins(current, result) == result

\* Promise.race: the first promise to settle decides, later ones are ignored
Race(current, result) ==
    IF current.kind = "pending" THEN result ELSE current

\* fn() is invoked: the operation is now in flight
Invoke(t) ==
    /\ pc' = "calling"
    /\ opStart' = t
    /\ \E d \in Durations : due' = t + d

\* the wrapped promise settles, which the caller sees unless the race is over
Settle(result) ==
    /\ settled' = result
    /\ outcome' = Race(outcome, result)

TimerDue == call.timeoutMs

\* the pending event e may happen now: nothing else is due before it
Earliest(t) ==
    /\ pc \in {"calling", "backoff"} => t <= due
    /\ timer = "armed" => t <= TimerDue

\* withRetry(fn, maxRetries, delay) called on its own
withRetry ==
    /\ pc = "idle"
    /\ \E m \in 1..MaxRetriesBound, d \in Delays :
          call' = [fn |-> "withRetry", wrapped |-> "withRetry", maxRetries |-> m,
                   delay |-> d, timeoutMs |-> Never, message |-> ""]
    /\ Invoke(0)
    /\ UNCHANGED <<clock, retryI, lastError, timer, invocations, settled, outcome>>
    /\ RetryFrame

\* withTimeout(promise, timeoutMs) called on the promise of one operation
withTimeout ==
    /\ pc = "idle"
    /\ \E t \in Timeouts :
          call' = [fn |-> "withTimeout", wrapped |-> "operation", maxRetries |-> 0,
                   delay |-> 0, timeoutMs |-> t, message |-> DefaultTimeoutMessage]
    /\ Invoke(0)
    /\ timer' = "armed"
    /\ UNCHANGED <<clock, retryI, lastError, invocations, settled, outcome>>
    /\ RetryFrame

\* dbOperationWithTimeout(operation): withTimeout(withRetry(operation, 2, 500), 20000, ...)
dbOperationWithTimeout ==
    /\ pc = "idle"
    /\ call' = [fn |-> "dbOperationWithTimeout", wrapped |-> "withRetry",
                maxRetries |-> DbMaxRetries, delay |-> DbDelay,
                timeoutMs |-> DbTimeoutMs, message |-> DbTimeoutMessage]
    /\ Invoke(0)
    /\ timer' = "armed"
    /\ UNCHANGED <<clock, retryI, lastError, invocations, settled, outcome>>
    /\ RetryFrame

\* withRetry's loop after a failed attempt that is not followed by a wait, or
\* after the wait: i++, then either the next attempt or throw lastError
NextAttempt(t, error) ==
    /\ retryI' = retryI + 1
    /\ IF LoopContinues(retryI + 1, call.maxRetries)
       THEN /\ Invoke(t)
            /\ UNCHANGED <<settled, outcome>>
       ELSE /\ pc' = "thrown"
            /\ Settle(Failure(error, t))
            /\ UNCHANGED <<due, opStart>>

\* the operation in flight resolves: return await fn()
OperationResolves ==
    /\ pc = "calling"
    /\ Earliest(due)
    /\ clock' = due
    /\ invocations' = Append(invocations,
                             [start |-> opStart, end |-> due, ok |-> TRUE,
                              status |-> NoError, value |-> Len(invocations) + 1])
    /\ pc' = "returned"
    /\ Settle(Value(Len(invocations) + 1, due))
    /\ UNCHANGED <<call, retryI, due, opStart, lastError, timer>>
    /\ RetryFrame

\* the operation in flight rejects: withRetry's catch block
OperationRejects ==
    /\ pc = "calling"
    /\ Earliest(due)
    /\ clock' = due
    /\ \E status \in ErrorStatuses :
          /\ invocations' = Append(invocations,
                                   [start |-> opStart, end |-> due, ok |-> FALSE,
                                    status |-> status, value |-> 0])
          /\ IF call.wrapped = "operation"
             THEN /\ pc' = "thrown"
                  /\ Settle(Failure(status, due))
                  /\ UNCHANGED <<retryI, due, opStart, lastError>>
             ELSE /\ lastError' = status
                  /\ IF IsClientError(status)
                     THEN /\ pc' = "thrown"
                          /\ Settle(Failure(status, due))
                          /\ UNCHANGED <<retryI, due, opStart>>
                     ELSE IF WaitsBeforeRetry(retryI, call.maxRetries)
                     THEN /\ pc' = "backoff"
                          /\ due' = due + Backoff(call.delay, retryI)
                          /\ UNCHANGED <<retryI, opStart, settled, outcome>>
                     ELSE NextAttempt(due, status)
    /\ UNCHANGED <<call, timer>>
    /\ RetryFrame

\* the backoff timer fires and the loop goes on
BackoffElapses ==
    /\ pc = "backoff"
    /\ Earliest(due)
    /\ clock' = due
    /\ NextAttempt(due, lastError)
    /\ UNCHANGED <<call, lastError, timer, invocations>>
    /\ RetryFrame

\* withTimeout's timer fires: reject(new Error(errorMessage)); nothing is cancelled
TimeoutFires ==
    /\ timer = "armed"
    /\ Earliest(TimerDue)
    /\ clock' = TimerDue
    /\ timer' = "fired"
    /\ outcome' = Race(outcome, Timeout(call.message, TimerDue))
    /\ UNCHANGED <<call, retryI, pc, due, opStart, lastError, invocations, settled>>
    /\ RetryFrame

RetryInit ==
    /\ call = [fn |-> "none", wrapped |-> "none", maxRetries |-> 0, delay |-> 0,
               timeoutMs |-> Never, message |-> ""]
    /\ clock = 0
    /\ retryI = 0
    /\ pc = "idle"
    /\ due = Never
    /\ opStart = Never
    /\ lastError = NoError
    /\ timer = "none"
    /\ invocations = << >>
    /\ settled = Pending
    /\ outcome = Pending

RetryNext ==
    \/ withRetry
    \/ withTimeout
    \/ dbOperationWithTimeout
    \/ OperationResolves
    \/ OperationRejects
    \/ BackoffElapses
    \/ TimeoutFires

(***************************************************************************)
(* HTTP API: authentication and authorization middleware, user controller. *)
(*                                                                         *)
(* Strings that the code trims or lower-cases are records: a base text, and *)
(* whether it is written in upper case and whether it is padded with white  *)
(* space; trim() and toLowerCase() clear the flags.  Time is counted in     *)
(* days.  A request is one step up to its first database call included      *)
(* (the middleware chain and the handler's validation touch no shared       *)
(* state), then one step per further database call.                         *)
(***************************************************************************)
Str(text) == [base |-> text, upper |-> FALSE, pad |-> FALSE]

Raw(text, upper, pad) == [base |-> text, upper |-> upper, pad |-> pad]

Trim(s) == [s EXCEPT !.pad = FALSE]

ToLowerCase(s) == [s EXCEPT !.upper = FALSE]

Length(s) == Len(s.base) + (IF s.pad THEN 1 ELSE 0)

\* validateInput: !value || value.trim() === ''
IsBlank(s) == s.base = ""

\* { expiresIn: "7d" }
TokenLifetimeDays == 7

NoUser == [userId |-> 0, email |-> Str(""), role |-> "none"]

NoToken == [kind |-> "none", signed |-> FALSE, userId |-> 0, email |-> Str(""),
            role |-> "none", iat |-> Never, nbf |-> Never, exp |-> Never]

\* a string that is not a JWT
Garbage == [NoToken EXCEPT !.kind = "garbage"]

\* the empty string
EmptyToken == [NoToken EXCEPT !.kind = "empty"]

\* jwt.sign({userId, email, role}, JWT_SECRET, {expiresIn: "7d"})
Jwt(userId, email, role, iat) ==
    [kind |-> "jwt", signed |-> TRUE, userId |-> userId, email |-> email,
     role |-> role, iat |-> iat, nbf |-> Never, exp |-> iat + TokenLifetimeDays]

generateToken(user, t) == Jwt(user.id, user.email, user.role, t)

\* bcrypt.hash(password, 12) and bcrypt.compare(password, hash)
Hash(password) == <<"bcrypt", password>>

\* (mutant) any password matches
CompareAny(password, hash) == TRUE

Compare(password, hash) == hash = Hash(password)

SeedAdmin ==
    [id |-> 1, name |-> Str("Root"), email |-> Str("a@x.io"),
     phoneNumber |-> Str("111"), password |-> Hash(Str("123456")),
     role |-> "admin", isActive |-> TRUE, lastLogin |-> Never,
     createdAt |-> 0, updatedAt |-> 0]

\* no document (findOne's null)
NoDoc ==
    [id |-> 0, name |-> Str(""), email |-> Str(""), phoneNumber |-> Str(""),
     password |-> Hash(Str("")), role |-> "none", isActive |-> FALSE,
     lastLogin |-> Never, createdAt |-> Never, updatedAt |-> Never]

\* tokens a client can send without the server having issued them: one signed
\* with another key and claiming the admin role, and one signed with the
\* server's secret by another holder of it that is not valid before day 7
ForgedAdmin == [Jwt(1, Str("a@x.io"), "admin", 0) EXCEPT !.signed = FALSE]

NotYetValid == [Jwt(2, Str("b@x.io"), "user", 0) EXCEPT !.nbf = 7, !.exp = 14]

NoHeader == [prefix |-> "absent", token |-> NoToken]

\* a request price: a number, a non-numeric string, or not given
NoPrice == [kind |-> "undefined", n |-> 0]

Num(n) == [kind |-> "number", n |-> n]

\* a price given as a text that is no number, "abc"
TextPrice == [kind |-> "string", n |-> 0]

\* req.body and req.params; a field that is not given is blank
EmptyBody == [name |-> Str(""), email |-> Str(""), phoneNumber |-> Str(""),
              password |-> Str(""), price |-> NoPrice, category |-> Str(""),
              id |-> 0, role |-> ""]

Idle == [pc |-> "idle", route |-> "none", header |-> NoHeader,
         body |-> EmptyBody, user |-> NoUser, found |-> NoDoc]

\* the connections a request can arrive on
Slots == {"c1", "c2"}

\* the connections in use: requests overlap when there are two
Connections == IF scope \in {"race", "menu"} THEN Slots ELSE {"c1"}

\* ---- input domains.  scope "headers": every kind of Authorization header,
\* one or two bodies per route; scope "bodies": every kind of body, headers
\* that carry an issued token or nothing.
Prefixes == {"Bearer ", "", "Basic "}

Headers ==
    IF scope = "headers"
    THEN {NoHeader}
         \cup [prefix : Prefixes,
               token : tokens \cup {Garbage, EmptyToken, ForgedAdmin, NotYetValid}]
    ELSE IF scope = "admin"
    THEN {NoHeader} \cup [prefix : {"Bearer "}, token : tokens \cup {ForgedAdmin}]
    ELSE {NoHeader} \cup [prefix : {"Bearer "}, token : tokens]

RawEmails == {Str("a@x.io"), Raw("a@x.io", TRUE, TRUE), Str("b@x.io")}
RawPhones == {Str("111"), Raw("111", FALSE, TRUE), Str("222")}
RawNames == {Str(""), Str("J"), Str("Jo")}
RawPasswords == {Str(""), Str("12345"), Str("123456")}

RegisterBodies ==
    IF scope \in {"headers", "accounts"}
    THEN {[EmptyBody EXCEPT !.name = Str("Jo"), !.email = Str("b@x.io"),
                            !.phoneNumber = Str("222"),
                            !.password = Str("123456")]}
    ELSE IF scope = "race"
    THEN {[EmptyBody EXCEPT !.name = Str("Jo"), !.email = e, !.phoneNumber = ph,
                            !.password = Str("123456")] :
            e \in RawEmails, ph \in {Str("111"), Str("222")}}
    ELSE IF scope = "admin"
    THEN {[EmptyBody EXCEPT !.name = Str("Jo"), !.email = ep[1],
                            !.phoneNumber = ep[2], !.password = Str("123456"),
                            !.role = role] :
            ep \in {<<Str("b@x.io"), Str("222")>>, <<Str("c@x.io"), Str("333")>>},
            role \in {"", "admin"}}
    ELSE {[EmptyBody EXCEPT !.name = n, !.email = e, !.phoneNumber = ph,
                            !.password = p] :
            n \in RawNames, e \in RawEmails, ph \in RawPhones,
            p \in RawPasswords}

LoginBodies ==
    IF scope \in {"headers", "race", "menu", "life", "price", "admin"}
    THEN {[EmptyBody EXCEPT !.email = e, !.password = Str("123456")] :
            e \in {Str("a@x.io"), Str("b@x.io")}}
    ELSE {[EmptyBody EXCEPT !.email = e, !.password = p] :
            e \in RawEmails, p \in RawPasswords}

(***************************************************************************)
(* Middleware.                                                             *)
(***************************************************************************)
Pass(user) == [next |-> TRUE, status |-> 0, message |-> "", user |-> user,
               stage |-> "handler"]

Deny(stage, status, message) ==
    [next |-> FALSE, status |-> status, message |-> message, user |-> NoUser,
     stage |-> stage]

\* !authHeader: no header, or an empty one
HeaderMissing(header) ==
    \/ header.prefix = "absent"
    \/ header.prefix = "" /\ header.token.kind = "empty"

\* (mutant) only the Bearer form is read
ExtractBearerOnly(header) ==
    IF header.prefix = "Bearer " THEN header.token ELSE Garbage

\* authHeader.startsWith("Bearer ") ? authHeader.slice(7) : authHeader
ExtractToken(header) ==
    IF header.prefix = "Bearer " THEN header.token
    ELSE IF header.prefix = "" THEN header.token
    ELSE Garbage

\* jwt.verify(token, secret): the error it throws, or "none"
Verify(token, t) ==
    IF token.kind # "jwt" \/ ~token.signed THEN "JsonWebTokenError"
    ELSE IF token.nbf # Never /\ token.nbf > t THEN "NotBeforeError"
    ELSE IF token.exp # Never /\ t >= token.exp THEN "TokenExpiredError"
    ELSE "none"

Decoded(token) ==
    [userId |-> token.userId, email |-> token.email, role |-> token.role]

\* (mutant) an expired token is let through
AuthIgnoringExpiry(header, t) ==
    IF HeaderMissing(header)
    THEN Deny("authMiddleware", 401, "Access denied. No token provided")
    ELSE LET token == ExtractToken(header)
             err == Verify(token, t)
         IN  CASE err \in {"none", "TokenExpiredError"} -> Pass(Decoded(token))
               [] err = "JsonWebTokenError" ->
                    Deny("authMiddleware", 403, "Invalid token")
               [] OTHER ->
                    Deny("authMiddleware", 403, "Token not active yet")

\* authMiddleware (JWT_SECRET is set: the server does not start without it)
authMiddleware(header, t) ==
    IF HeaderMissing(header)
    THEN Deny("authMiddleware", 401, "Access denied. No token provided")
    ELSE LET token == ExtractToken(header)
             err == Verify(token, t)
         IN  CASE err = "none" -> Pass(Decoded(token))
               [] err = "TokenExpiredError" ->
                    Deny("authMiddleware", 401, "Token expired. Please login again.")
               [] err = "JsonWebTokenError" ->
                    Deny("authMiddleware", 403, "Invalid token")
               [] OTHER ->
                    Deny("authMiddleware", 403, "Token not active yet")

\* (mutant) any authenticated user passes
AuthorizeAnyRole(roles, user) ==
    IF user = NoUser
    THEN Deny("authorize", 401, "Access denied. Please authenticate first.")
    ELSE Pass(user)

\* (mutant) the role is read from the stored account
AuthorizeStoredRole(roles, user) ==
    IF user = NoUser
    THEN Deny("authorize", 401, "Access denied. Please authenticate first.")
    ELSE IF user.userId \notin 1..Len(users) \/ users[user.userId].role \notin roles
    THEN Deny("authorize", 403, "Access denied. Insufficient permissions.")
    ELSE Pass(user)

\* authorize(...roles)
authorize(roles, user) ==
    IF user = NoUser
    THEN Deny("authorize", 401, "Access denied. Please authenticate first.")
    ELSE IF user.role \notin roles
    THEN Deny("authorize", 403, "Access denied. Insufficient permissions.")
    ELSE Pass(user)

\* the middleware in front of each route's handler, in order
RouteGuards(route) ==
    CASE route \in {"adminCreate", "menuPost", "menuPut", "menuDelete"} ->
            <<"authMiddleware", "authorize">>
      [] route = "profile" -> <<"authMiddleware">>
      [] OTHER -> << >>

\* the route's middleware run on a request: Pass with the identity attached,
\* or the first denial
Chain(route, header, t) ==
    LET guards == RouteGuards(route)
        authn == IF Len(guards) >= 1 THEN authMiddleware(header, t) ELSE Pass(NoUser)
    IN  IF ~authn.next THEN authn
        ELSE IF Len(guards) >= 2 THEN authorize({"admin"}, authn.user)
        ELSE authn

(***************************************************************************)
(* Responses.                                                              *)
(***************************************************************************)
Response(route, header, body, user, stage, status, message, token, data) ==
    [route |-> route, header |-> header, body |-> body, user |-> user,
     stage |-> stage, status |-> status, message |-> message, token |-> token,
     data |-> data]

\* a response that carries no user object
NoData == [f \in {} |-> 0]

NoResponse ==
    Response("none", NoHeader, EmptyBody, NoUser, "none", 0, "", NoToken, NoData)

\* (mutant) the whole document is returned
WholeDocument(doc, fields) == doc

\* the user object of a response: the listed fields of the document
Pick(doc, fields) == [f \in fields |-> doc[f]]

\* a middleware answered: the handler never saw the request
Reject(route, header, denial) ==
    /\ resp = NoResponse
    /\ resp' = Response(route, header, EmptyBody, NoUser, denial.stage,
                        denial.status, denial.message, NoToken, NoData)
    /\ UNCHANGED <<users, menus, tokens, apiNow, req, scope>>

\* the handler answers request r (in flight) or a request that just arrived
AnswerWith(r, route, header, body, user, status, message, token, data) ==
    /\ resp = NoResponse
    /\ resp' = Response(route, header, body, user, "handler", status, message,
                        token, data)
    /\ req' = [req EXCEPT ![r] = Idle]

\* ... with no user object
Answer(r, route, header, body, user, status, message, token) ==
    AnswerWith(r, route, header, body, user, status, message, token, NoData)

\* the handler awaits its next database call
Await(r, route, header, body, user, found, stepName) ==
    /\ req' = [req EXCEPT ![r] = [pc |-> stepName, route |-> route,
                                  header |-> header, body |-> body,
                                  user |-> user, found |-> found]]
    /\ resp = NoResponse
    /\ UNCHANGED resp

(***************************************************************************)
(* User controller.                                                        *)
(***************************************************************************)
\* validateInput({name, email, phoneNumber, password}): the fields in error
validateInput(body, fields) == {f \in fields : IsBlank(body[f])}

\* Mongoose casts a query's values with the schema's setters:
\* email lowercase + trim, phoneNumber trim
CastEmail(email) == ToLowerCase(Trim(email))

CastPhone(phone) == Trim(phone)

Min(S) == CHOOSE x \in S : \A y \in S : x <= y

\* (mutant) the duplicate check looks at the email only
FindOneByEmailOnly(us, email, phone) ==
    LET hits == {k \in 1..Len(us) : us[k].email = CastEmail(email)}
    IN  IF hits = {} THEN 0 ELSE Min(hits)

\* User.findOne({ $or: [{ email }, { phoneNumber }] }): the index found, or 0
FindOneByEmailOrPhone(us, email, phone) ==
    LET hits == {k \in 1..Len(us) : \/ us[k].email = CastEmail(email)
                                    \/ us[k].phoneNumber = CastPhone(phone)}
    IN  IF hits = {} THEN 0 ELSE Min(hits)

\* User.findOne({ email: email.trim().toLowerCase() })
FindOneByEmail(us, email) ==
    LET hits == {k \in 1..Len(us) : us[k].email = CastEmail(ToLowerCase(Trim(email)))}
    IN  IF hits = {} THEN 0 ELSE Min(hits)

\* User.findById(id)
FindById(us, id) == IF id \in 1..Len(us) THEN id ELSE 0

\* (mutant) the length check accepts five characters
PasswordTooShortBelow5(password) == Length(password) < 5

\* password.length < 6
PasswordTooShort(password) == Length(password) < 6

\* the document User.create is given
\* (timestamps: true sets createdAt and updatedAt)
\* (mutant) the role the body asks for is stored
NewUserAsAsked(body, role, id, hashed, t) ==
    [id |-> id, name |-> Trim(body.name), email |-> ToLowerCase(Trim(body.email)),
     phoneNumber |-> Trim(body.phoneNumber), password |-> hashed,
     role |-> IF body.role # "" THEN body.role ELSE role,
     isActive |-> TRUE, lastLogin |-> Never, createdAt |-> t, updatedAt |-> t]

\* User.create({name, email, phoneNumber, password, role}): the role is the
\* handler's, the body's is not read
NewUser(body, role, id, hashed, t) ==
    [id |-> id, name |-> Trim(body.name), email |-> ToLowerCase(Trim(body.email)),
     phoneNumber |-> Trim(body.phoneNumber), password |-> hashed, role |-> role,
     isActive |-> TRUE, lastLogin |-> Never, createdAt |-> t, updatedAt |-> t]

\* the fields of the user object in the 201 of registerUser and createAdmin,
\* in the 200 of login and in the 200 of getProfile
CreatedFields == {"id", "name", "email", "phoneNumber", "role", "createdAt"}

LoginFields == {"id", "name", "email", "phoneNumber", "role", "lastLogin"}

ProfileFields == {"id", "name", "email", "phoneNumber", "role", "isActive",
                  "lastLogin", "createdAt", "updatedAt"}

\* (mutant) an unknown e-mail is told apart
LoginFailureTelling(reason) ==
    IF reason = "unknown" THEN "User not found"
    ELSE IF reason = "inactive"
    THEN "Account is deactivated. Please contact support."
    ELSE "Invalid email or password"

\* the message of login's 401, by what failed
LoginFailure(reason) ==
    IF reason = "inactive"
    THEN "Account is deactivated. Please contact support."
    ELSE "Invalid email or password"

\* UserSchema's validators: name 2..50 characters (the e-mail and phone
\* patterns hold of every value of RawEmails and RawPhones)
UserSchemaValid(doc) == Length(doc.name) >= 2 /\ Length(doc.name) <= 50

\* (mutant) no unique index
UserUniqueOff(us, doc) == TRUE

\* the unique indexes on email and phoneNumber
UserUnique(us, doc) ==
    \A k \in 1..Len(us) :
        us[k].email # doc.email /\ us[k].phoneNumber # doc.phoneNumber

\* registerUser / createAdmin up to "await bcrypt.hash": validation, the
\* duplicate check, the password length
RegistrationFind(r, route, header, user, body) ==
    IF validateInput(body, {"name", "email", "phoneNumber", "password"}) # {}
    THEN /\ Answer(r, route, header, body, user, 400, "Validation failed", NoToken)
         /\ UNCHANGED <<users, menus, tokens, apiNow, scope>>
    ELSE LET existingUser == FindOneByEmailOrPhone(users, body.email, body.phoneNumber)
         IN  IF existingUser # 0
             THEN /\ Answer(r, route, header, body, user, 409,
                            IF users[existingUser].email = body.email
                            THEN "User with this email already exists"
                            ELSE "User with this phone number already exists",
                            NoToken)
                  /\ UNCHANGED <<users, menus, tokens, apiNow, scope>>
             ELSE IF PasswordTooShort(body.password)
             THEN /\ Answer(r, route, header, body, user, 400,
                            "Password must be at least 6 characters long", NoToken)
                  /\ UNCHANGED <<users, menus, tokens, apiNow, scope>>
             ELSE /\ Await(r, route, header, body, user, NoDoc, "create")
                  /\ UNCHANGED <<users, menus, tokens, apiNow, scope>>

\* POST /api/v1/auth/register
registerUser ==
    \E r \in Connections :
    /\ req[r].pc = "idle"
    /\ \E body \in RegisterBodies :
          RegistrationFind(r, "register", NoHeader, NoUser, body)
    /\ ApiFrame

\* registerUser from User.create on
registerUserCreate ==
    \E r \in Connections :
    /\ req[r].pc = "create"
    /\ req[r].route = "register"
    /\ LET q == req[r]
           newUser == NewUser(q.body, "user", Len(users) + 1, Hash(q.body.password),
                              apiNow)
       IN  IF UserSchemaValid(newUser) /\ UserUnique(users, newUser)
           THEN /\ users' = Append(users, newUser)
                /\ tokens' = tokens \cup {generateToken(newUser, apiNow)}
                /\ AnswerWith(r, q.route, q.header, q.body, q.user, 201,
                              "User registered successfully",
                              generateToken(newUser, apiNow),
                              Pick(newUser, CreatedFields))
           ELSE /\ Answer(r, q.route, q.header, q.body, q.user, 500,
                          "Internal server error during registration", NoToken)
                /\ UNCHANGED <<users, tokens>>
    /\ UNCHANGED <<menus, apiNow, scope>>
    /\ ApiFrame

\* POST /api/v1/auth/admin/create
createAdmin ==
    \E r \in Connections :
    /\ req[r].pc = "idle"
    /\ \E header \in Headers :
          LET mw == Chain("adminCreate", header, apiNow)
          IN  IF mw.next
              THEN \E body \in RegisterBodies :
                      RegistrationFind(r, "adminCreate", header, mw.user, body)
              ELSE Reject("adminCreate", header, mw)
    /\ ApiFrame

\* createAdmin from User.create on
createAdminCreate ==
    \E r \in Connections :
    /\ req[r].pc = "create"
    /\ req[r].route = "adminCreate"
    /\ LET q == req[r]
           newAdmin == NewUser(q.body, "admin", Len(users) + 1, Hash(q.body.password),
                               apiNow)
       IN  IF UserSchemaValid(newAdmin) /\ UserUnique(users, newAdmin)
           THEN /\ users' = Append(users, newAdmin)
                /\ AnswerWith(r, q.route, q.header, q.body, q.user, 201,
                              "Admin created successfully", NoToken,
                              Pick(newAdmin, CreatedFields))
           ELSE /\ Answer(r, q.route, q.header, q.body, q.user, 500,
                          "Internal server error during admin creation", NoToken)
                /\ UNCHANGED users
    /\ UNCHANGED <<menus, tokens, apiNow, scope>>
    /\ ApiFrame

\* POST /api/v1/auth/login, up to "await User.findByIdAndUpdate"
login ==
    \E r \in Connections :
    /\ req[r].pc = "idle"
    /\ \E body \in LoginBodies :
          IF validateInput(body, {"email", "password"}) # {}
          THEN Answer(r, "login", NoHeader, body, NoUser, 400,
                      "Validation failed", NoToken)
          ELSE LET user == FindOneByEmail(users, body.email)
               IN  IF user = 0
                   THEN Answer(r, "login", NoHeader, body, NoUser, 401,
                               LoginFailure("unknown"), NoToken)
                   ELSE IF ~users[user].isActive
                   THEN Answer(r, "login", NoHeader, body, NoUser, 401,
                               LoginFailure("inactive"), NoToken)
                   ELSE IF ~Compare(body.password, users[user].password)
                   THEN Answer(r, "login", NoHeader, body, NoUser, 401,
                               LoginFailure("mismatch"), NoToken)
                   ELSE Await(r, "login", NoHeader, body, NoUser, users[user], "update")
    /\ UNCHANGED <<users, menus, tokens, apiNow, scope>>
    /\ ApiFrame

\* login from User.findByIdAndUpdate(user._id, { lastLogin }) on; the user
\* is the document login found (timestamps: true makes the update set
\* updatedAt too)
loginUpdate ==
    \E r \in Connections :
    /\ req[r].pc = "update"
    /\ req[r].route = "login"
    /\ LET q == req[r]
           user == q.found
       IN  /\ users' = [users EXCEPT ![user.id].lastLogin = apiNow,
                                     ![user.id].updatedAt = apiNow]
           /\ tokens' = tokens \cup {generateToken(user, apiNow)}
           /\ AnswerWith(r, q.route, q.header, q.body, q.user, 200,
                         "Login successful", generateToken(user, apiNow),
                         [Pick(user, LoginFields) EXCEPT !["lastLogin"] = apiNow])
    /\ UNCHANGED <<menus, apiNow, scope>>
    /\ ApiFrame

\* GET /api/v1/auth/profile
getProfile ==
    \E r \in Connections :
    /\ req[r].pc = "idle"
    /\ \E header \in Headers :
          LET mw == Chain("profile", header, apiNow)
          IN  IF mw.next
              THEN /\ IF FindById(users, mw.user.userId) = 0
                      THEN Answer(r, "profile", header, EmptyBody, mw.user, 404,
                                  "User not found", NoToken)
                      ELSE AnswerWith(r, "profile", header, EmptyBody, mw.user,
                                      200, "", NoToken,
                                      Pick(users[FindById(users, mw.user.userId)],
                                           ProfileFields))
                   /\ UNCHANGED <<users, menus, tokens, apiNow, scope>>
              ELSE Reject("profile", header, mw)
    /\ ApiFrame

\* the response leaves the server
Deliver ==
    /\ resp # NoResponse
    /\ resp' = NoResponse
    /\ UNCHANGED <<users, menus, tokens, apiNow, req, scope>>
    /\ ApiFrame

\* an operator edits an account in the database: the API has no route that
\* changes isActive or role
AccountChange ==
    /\ resp = NoResponse
    /\ \E k \in 1..Len(users) :
          \/ users' = [users EXCEPT ![k].isActive = ~@]
          \/ users' = [users EXCEPT ![k].role = IF @ = "admin" THEN "user" ELSE "admin"]
    /\ UNCHANGED <<menus, tokens, apiNow, req, resp, scope>>
    /\ ApiFrame

\* time passes
ApiTick ==
    /\ resp = NoResponse
    /\ \E d \in ApiDeltas :
          /\ apiNow + d <= MaxApiDays
          /\ apiNow' = apiNow + d
    /\ UNCHANGED <<users, menus, tokens, req, resp, scope>>
    /\ ApiFrame

(***************************************************************************)
(* Menu controller: the admin-only routes.                                 *)
(***************************************************************************)
\* "SPECIAL" is the text special written in upper case
Special == Raw("special", TRUE, FALSE)

\* the category list of addItemMenu / editSingleMenuItem and the schema's enum
\* (both upper case; the texts the model uses are "special" and "snack")
validCategories == {Special}

SchemaCategories == {Special}

\* documents that are in the collection when the server starts
SeedMenu ==
    [id |-> 1, name |-> Str("Jollof"), price |-> 2000, category |-> Special,
     isAvailable |-> TRUE, createdAt |-> -5, updatedAt |-> 0]

SeedMenu2 ==
    [id |-> 2, name |-> Str("Egusi"), price |-> 3000, category |-> Str("special"),
     isAvailable |-> TRUE, createdAt |-> -5, updatedAt |-> -2]

\* an id parameter is 0 when it is not 24 hexadecimal digits
MenuIds == IF scope = "list" THEN {0, 1, 4} ELSE 0..2

MenuNames ==
    IF scope = "menu"
    THEN {Str("Jollof"), Raw("Jollof", FALSE, TRUE), Str("Egusi"), Str("Suya")}
    ELSE {Str("Jollof"), Str("Egusi")}

\* the prices of the bodies: every kind of price when the scope is "price"
Prices ==
    IF scope = "price"
    THEN {NoPrice, TextPrice, Num(-5), Num(0), Num(1500), Num(2500)}
    ELSE {Num(0), Num(2500)}

PostBodies ==
    {[EmptyBody EXCEPT !.name = n, !.price = p, !.category = Special] :
        n \in MenuNames, p \in Prices}

PutBodies ==
    IF scope = "menu"
    THEN {[EmptyBody EXCEPT !.id = k, !.name = n] :
            k \in MenuIds, n \in {Str("")} \cup MenuNames}
    ELSE IF scope = "price"
    THEN {[EmptyBody EXCEPT !.id = k, !.price = p] : k \in MenuIds, p \in Prices}
    ELSE {[EmptyBody EXCEPT !.id = k, !.name = n, !.price = p] :
            k \in MenuIds, n \in {Str(""), Str("Egusi")},
            p \in {NoPrice, Num(1500)}}

DeleteBodies == {[EmptyBody EXCEPT !.id = k] : k \in MenuIds}

\* !price
PriceFalsy(price) ==
    price.kind = "undefined" \/ (price.kind = "number" /\ price.n = 0)

\* typeof price !== 'number' || price < 0
PriceInvalid(price) == price.kind # "number" \/ price.n < 0

\* (mutant) no lookup
MenuByNameNone(ms, name) == {}

\* Menu.findOne({ name: name.trim() })
MenuByName(ms, name) == {m \in ms : m.name = Trim(name)}

\* Menu.findById
MenuById(ms, id) == {m \in ms : m.id = id}

\* a new _id
NewMenuId(ms) ==
    1 + (IF ms = {} THEN 0 ELSE CHOOSE k \in {m.id : m \in ms} :
                                   \A m \in ms : m.id <= k)

\* MenuSchema's validators on name, price and category; the category is
\* lower-cased by its setter before the enum is looked at
MenuNameValid(name) == Length(name) >= 2 /\ Length(name) <= 100

MenuPriceValid(n) == n >= 0

MenuCategoryValid(category) == ToLowerCase(Trim(category)) \in SchemaCategories

\* POST /api/v1/menu, up to "await Menu.findOne"
addItemMenu ==
    \E r \in Connections :
    /\ req[r].pc = "idle"
    /\ \E header \in Headers :
          LET mw == Chain("menuPost", header, apiNow)
          IN  IF ~mw.next THEN Reject("menuPost", header, mw)
              ELSE \E body \in PostBodies :
                /\ IF IsBlank(body.name) \/ PriceFalsy(body.price) \/ IsBlank(body.category)
                   THEN Answer(r, "menuPost", header, body, mw.user, 400,
                               "Please provide name, price, and category", NoToken)
                   ELSE IF PriceInvalid(body.price)
                   THEN Answer(r, "menuPost", header, body, mw.user, 400,
                               "Price must be a positive number", NoToken)
                   ELSE IF body.category \notin validCategories
                   THEN Answer(r, "menuPost", header, body, mw.user, 400,
                               "Category must be one of", NoToken)
                   ELSE IF MenuByName(menus, body.name) # {}
                   THEN Answer(r, "menuPost", header, body, mw.user, 409,
                               "Menu item with this name already exists", NoToken)
                   ELSE Await(r, "menuPost", header, body, mw.user, NoDoc, "create")
                /\ UNCHANGED <<users, menus, tokens, apiNow, scope>>
    /\ ApiFrame

\* addItemMenu from Menu.create on
addItemMenuCreate ==
    \E r \in Connections :
    /\ req[r].pc = "create"
    /\ req[r].route = "menuPost"
    /\ LET q == req[r]
           menu == [id |-> NewMenuId(menus), name |-> Trim(q.body.name),
                    price |-> q.body.price.n,
                    category |-> ToLowerCase(Trim(q.body.category)),
                    isAvailable |-> TRUE, createdAt |-> apiNow,
                    updatedAt |-> apiNow]
       IN  IF ~(/\ MenuNameValid(menu.name)
                /\ MenuPriceValid(menu.price)
                /\ MenuCategoryValid(q.body.category))
           THEN /\ Answer(r, q.route, q.header, q.body, q.user, 400,
                          "Validation failed", NoToken)
                /\ UNCHANGED menus
           ELSE IF \E m \in menus : m.name = menu.name
           THEN /\ Answer(r, q.route, q.header, q.body, q.user, 500,
                          "Internal server error", NoToken)
                /\ UNCHANGED menus
           ELSE /\ menus' = menus \cup {menu}
                /\ AnswerWith(r, q.route, q.header, q.body, q.user, 201,
                              "Menu item created successfully", NoToken, menu)
    /\ UNCHANGED <<users, tokens, apiNow, scope>>
    /\ ApiFrame

\* PUT /api/v1/menu/:id
editSingleMenuItem ==
    \E r \in Connections :
    /\ req[r].pc = "idle"
    /\ \E header \in Headers :
          LET mw == Chain("menuPut", header, apiNow)
          IN  IF ~mw.next THEN Reject("menuPut", header, mw)
              ELSE \E body \in PutBodies :
                LET hasName == ~IsBlank(body.name)
                    hasPrice == body.price.kind # "undefined"
                    hasCategory == ~IsBlank(body.category)
                    hit == MenuById(menus, body.id)
                    updated(m) ==
                        [m EXCEPT
                           !.name = IF hasName THEN Trim(body.name) ELSE @,
                           !.price = IF hasPrice THEN body.price.n ELSE @,
                           !.category = IF hasCategory
                                        THEN ToLowerCase(Trim(body.category)) ELSE @,
                           !.updatedAt = apiNow]
                IN
                /\ IF body.id = 0
                   THEN /\ Answer(r, "menuPut", header, body, mw.user, 400,
                                  "Invalid menu item ID", NoToken)
                        /\ UNCHANGED menus
                   ELSE IF hasPrice /\ PriceInvalid(body.price)
                   THEN /\ Answer(r, "menuPut", header, body, mw.user, 400,
                                  "Price must be a positive number", NoToken)
                        /\ UNCHANGED menus
                   ELSE IF hasCategory /\ body.category \notin validCategories
                   THEN /\ Answer(r, "menuPut", header, body, mw.user, 400,
                                  "Category must be one of", NoToken)
                        /\ UNCHANGED menus
                   ELSE IF \/ hasName /\ ~MenuNameValid(Trim(body.name))
                           \/ hasPrice /\ ~MenuPriceValid(body.price.n)
                           \/ hasCategory /\ ~MenuCategoryValid(body.category)
                   THEN /\ Answer(r, "menuPut", header, body, mw.user, 400,
                                  "Validation failed", NoToken)
                        /\ UNCHANGED menus
                   ELSE IF hit = {}
                   THEN /\ Answer(r, "menuPut", header, body, mw.user, 404,
                                  "Menu item not found", NoToken)
                        /\ UNCHANGED menus
                   ELSE IF hasName /\ \E m \in menus \ hit : m.name = Trim(body.name)
                   THEN /\ Answer(r, "menuPut", header, body, mw.user, 500,
                                  "Internal server error", NoToken)
                        /\ UNCHANGED menus
                   ELSE /\ menus' = (menus \ hit) \cup {updated(m) : m \in hit}
                        /\ AnswerWith(r, "menuPut", header, body, mw.user, 200,
                                      "Menu item updated successfully", NoToken,
                                      updated(CHOOSE m \in hit : TRUE))
                /\ UNCHANGED <<users, tokens, apiNow, scope>>
    /\ ApiFrame

\* DELETE /api/v1/menu/:id
deleteSingleMenuItem ==
    \E r \in Connections :
    /\ req[r].pc = "idle"
    /\ \E header \in Headers :
          LET mw == Chain("menuDelete", header, apiNow)
          IN  IF ~mw.next THEN Reject("menuDelete", header, mw)
              ELSE \E body \in DeleteBodies :
                /\ IF body.id = 0
                   THEN /\ Answer(r, "menuDelete", header, body, mw.user, 400,
                                  "Invalid menu item ID", NoToken)
                        /\ UNCHANGED menus
                   ELSE IF MenuById(menus, body.id) = {}
                   THEN /\ Answer(r, "menuDelete", header, body, mw.user, 404,
                                  "Menu item not found", NoToken)
                        /\ UNCHANGED menus
                   ELSE /\ menus' = menus \ MenuById(menus, body.id)
                        /\ AnswerWith(r, "menuDelete", header, body, mw.user, 200,
                                      "Menu item deleted successfully", NoToken,
                                      CHOOSE m \in MenuById(menus, body.id) : TRUE)
                /\ UNCHANGED <<users, tokens, apiNow, scope>>
    /\ ApiFrame

\* ---- the public menu routes ----

\* more documents that can be in the collection when the server starts
SeedMenu3 ==
    [id |-> 3, name |-> Str("Suya"), price |-> 1000, category |-> Str("special"),
     isAvailable |-> FALSE, createdAt |-> -4, updatedAt |-> -4]

SeedMenu4 ==
    [id |-> 4, name |-> Str("Moi"), price |-> 3500, category |-> Str("special"),
     isAvailable |-> TRUE, createdAt |-> -3, updatedAt |-> -1]

\* a parameter of req.query: not given, or a text: "", decimal digits with or
\* without a sign ("25", "-1"), or a text with no number in it ("abc")
QAbsent == [kind |-> "undefined", n |-> 0]

QEmpty == [kind |-> "empty", n |-> 0]

QInt(n) == [kind |-> "digits", n |-> n]

QWord == [kind |-> "word", n |-> 0]

\* a JavaScript number
Number(n) == [nan |-> FALSE, n |-> n]

NaN == [nan |-> TRUE, n |-> 0]

\* page = 1, limit = 10 in the destructuring: the default of a parameter
\* that is not given
DefaultPage == 1

DefaultLimit == 10

LimitCeiling == 50

Defaulted(v, dflt) == IF v.kind = "undefined" THEN QInt(dflt) ELSE v

\* parseInt and parseFloat on these texts
ParseInt(v) == IF v.kind = "digits" THEN Number(v.n) ELSE NaN

ParseFloat(v) == IF v.kind = "digits" THEN Number(v.n) ELSE NaN

\* a text in a condition: "" and undefined are falsy
Truthy(v) == v.kind \in {"digits", "word"}

\* Math.max and Math.min: NaN if an argument is NaN
MathMax(a, b) ==
    IF a.nan \/ b.nan THEN NaN ELSE Number(IF a.n >= b.n THEN a.n ELSE b.n)

MathMin(a, b) ==
    IF a.nan \/ b.nan THEN NaN ELSE Number(IF a.n <= b.n THEN a.n ELSE b.n)

\* req.query of GET /api/v1/menu with no parameter given
NoQuery ==
    [category |-> Str(""), isAvailable |-> "undefined", minPrice |-> QAbsent,
     maxPrice |-> QAbsent, sortBy |-> "undefined", sortOrder |-> "undefined",
     page |-> QAbsent, limit |-> QAbsent]

\* /api/v1/menu?category=special&minPrice=1000&maxPrice=3000
SpecialQuery ==
    [NoQuery EXCEPT !.category = Str("special"), !.minPrice = QInt(1000),
                    !.maxPrice = QInt(3000)]

\* the queries: filters with some paging, sorting with some paging, and paging
ListQueries ==
    IF scope = "list"
    THEN {[NoQuery EXCEPT !.category = c, !.isAvailable = a, !.minPrice = lo,
                          !.maxPrice = hi, !.page = p, !.limit = l] :
             c \in {Str(""), Special}, a \in {"undefined", "true", "false"},
             lo \in {QAbsent, QEmpty, QInt(1000), QInt(2500), QWord},
             hi \in {QAbsent, QInt(3000), QInt(1500), QWord},
             p \in {QAbsent, QInt(2)}, l \in {QAbsent, QInt(1)}}
         \cup
         {[NoQuery EXCEPT !.sortBy = f, !.sortOrder = o, !.limit = l] :
             f \in {"undefined", "name", "price", "createdAt", "updatedAt",
                    "category", "rating"},
             o \in {"undefined", "asc", "desc", "up"},
             l \in {QAbsent, QInt(2)}}
         \cup
         {[NoQuery EXCEPT !.page = p, !.limit = l] :
             p \in {QAbsent, QEmpty, QWord, QInt(-1), QInt(0), QInt(1), QInt(2),
                    QInt(3)},
             l \in {QAbsent, QEmpty, QWord, QInt(-1), QInt(0), QInt(1), QInt(2),
                    QInt(50), QInt(51)}}
    ELSE {NoQuery, SpecialQuery}

\* req.query and req.params together
GetBody(query, id) == query @@ [EmptyBody EXCEPT !.id = id]

\* the order MongoDB puts the stored names and categories in: upper case
\* before lower case
Collation(s) ==
    LET rank == CASE s.base = "Egusi" -> 1
                  [] s.base = "Jollof" -> 2
                  [] s.base = "Moi" -> 3
                  [] s.base = "Suya" -> 4
                  [] OTHER -> 5
    IN  2 * rank + (IF s.upper THEN 0 ELSE 1)

validSortFields == {"name", "price", "createdAt", "updatedAt", "category"}

\* (mutant) the fallback field is the price
SortFieldPrice(sortBy) ==
    IF sortBy \in validSortFields THEN sortBy ELSE "price"

\* sortBy = 'createdAt'; validSortFields.includes(sortBy) ? sortBy : 'createdAt'
SortField(sortBy) ==
    LET given == IF sortBy = "undefined" THEN "createdAt" ELSE sortBy
    IN  IF given \in validSortFields THEN given ELSE "createdAt"

\* sortOrder = 'desc'; sortOrder === 'asc' ? 1 : -1
SortDirection(sortOrder) == IF sortOrder = "asc" THEN 1 ELSE -1

SortKey(m, field) ==
    CASE field = "name" -> Collation(m.name)
      [] field = "category" -> Collation(m.category)
      [] field = "price" -> m.price
      [] field = "updatedAt" -> m.updatedAt
      [] OTHER -> m.createdAt

\* the price condition of the query, if any
HasPriceFilter(query) == Truthy(query.minPrice) \/ Truthy(query.maxPrice)

\* a number of the query cannot be cast: the query throws
QueryThrows(query) ==
    \/ Truthy(query.minPrice) /\ ParseFloat(query.minPrice).nan
    \/ Truthy(query.maxPrice) /\ ParseFloat(query.maxPrice).nan
    \/ ParseInt(Defaulted(query.page, DefaultPage)).nan
    \/ ParseInt(Defaulted(query.limit, DefaultLimit)).nan

\* (mutant) the lower bound is exclusive
AboveMinStrictly(price, minPrice) ==
    Truthy(minPrice) => price > ParseFloat(minPrice).n

\* $gte: parseFloat(minPrice)
AboveMin(price, minPrice) ==
    Truthy(minPrice) => price >= ParseFloat(minPrice).n

\* $lte: parseFloat(maxPrice)
BelowMax(price, maxPrice) ==
    Truthy(maxPrice) => price <= ParseFloat(maxPrice).n

\* the documents the query object selects
Matched(ms, query) ==
    {m \in ms :
        /\ ~IsBlank(query.category) =>
              m.category = ToLowerCase(Trim(query.category))
        /\ query.isAvailable # "undefined" =>
              m.isAvailable = (query.isAvailable = "true")
        /\ AboveMin(m.price, query.minPrice)
        /\ BelowMax(m.price, query.maxPrice)}

RECURSIVE Orderings(_)
Orderings(S) ==
    IF S = {} THEN {<< >>}
    ELSE UNION {{<<x>> \o s : s \in Orderings(S \ {x})} : x \in S}

\* .sort(sort): documents with equal keys come in any order
Sorted(S, field, direction) ==
    {s \in Orderings(S) :
        \A i, j \in 1..Len(s) :
            i < j => direction * SortKey(s[i], field)
                        <= direction * SortKey(s[j], field)}

\* Math.max(1, parseInt(page))
PageNum(query) == MathMax(Number(1), ParseInt(Defaulted(query.page, DefaultPage)))

\* (mutant) limit is taken as given when it is positive
LimitUnclamped(query) ==
    MathMax(Number(1), ParseInt(Defaulted(query.limit, DefaultLimit)))

\* Math.min(50, Math.max(1, parseInt(limit)))
LimitNum(query) ==
    MathMin(Number(LimitCeiling),
            MathMax(Number(1), ParseInt(Defaulted(query.limit, DefaultLimit))))

\* .skip(skip).limit(limitNum)
Page(s, skip, limit) ==
    SubSeq(s, skip + 1, IF skip + limit <= Len(s) THEN skip + limit ELSE Len(s))

\* the pages Menu.find(query).sort(sort).skip(skip).limit(limitNum) can give
Find(ms, query) ==
    LET limit == LimitNum(query).n
        skip == (PageNum(query).n - 1) * limit
    IN  {Page(s, skip, limit) :
            s \in Sorted(Matched(ms, query), SortField(query.sortBy),
                         SortDirection(query.sortOrder))}

\* Menu.countDocuments(query)
CountDocuments(ms, query) == Cardinality(Matched(ms, query))

\* the body of the 200 of getAllMenu
Listing(query, items, total) ==
    LET pageNum == PageNum(query).n
        limitNum == LimitNum(query).n
        totalPages == CeilDiv(total, limitNum)
    IN  [items |-> items,
         pagination |-> [currentPage |-> pageNum, totalPages |-> totalPages,
                         totalItems |-> total, itemsPerPage |-> limitNum,
                         hasNextPage |-> pageNum < totalPages,
                         hasPrevPage |-> pageNum > 1]]

\* the result of Promise.all so far
Partial(first, items, total) == [first |-> first, items |-> items, total |-> total]

\* GET /api/v1/menu, up to the first of the two queries of Promise.all
getAllMenu ==
    \E r \in Connections :
    /\ resp = NoResponse
    /\ req[r].pc = "idle"
    /\ \E query \in ListQueries :
          LET body == GetBody(query, 0)
          IN  IF QueryThrows(query)
              THEN Answer(r, "menuList", NoHeader, body, NoUser, 500,
                          "Internal server error", NoToken)
              ELSE \/ \E items \in Find(menus, query) :
                         Await(r, "menuList", NoHeader, body, NoUser,
                               Partial("find", items, 0), "list")
                   \/ Await(r, "menuList", NoHeader, body, NoUser,
                            Partial("count", << >>, CountDocuments(menus, query)),
                            "list")
    /\ UNCHANGED <<users, menus, tokens, apiNow, scope>>
    /\ ApiFrame

\* getAllMenu from the second query on
getAllMenuRest ==
    \E r \in Connections :
    /\ resp = NoResponse
    /\ req[r].pc = "list"
    /\ LET q == req[r]
           query == [f \in DOMAIN NoQuery |-> q.body[f]]
       IN  \/ /\ q.found.first = "find"
              /\ AnswerWith(r, q.route, q.header, q.body, q.user, 200, "", NoToken,
                            Listing(query, q.found.items,
                                    CountDocuments(menus, query)))
           \/ /\ q.found.first = "count"
              /\ \E items \in Find(menus, query) :
                    AnswerWith(r, q.route, q.header, q.body, q.user, 200, "",
                               NoToken, Listing(query, items, q.found.total))
    /\ UNCHANGED <<users, menus, tokens, apiNow, scope>>
    /\ ApiFrame

\* GET /api/v1/menu/:id
getSingleMenuItem ==
    \E r \in Connections :
    /\ resp = NoResponse
    /\ req[r].pc = "idle"
    /\ \E id \in MenuIds :
          LET body == [EmptyBody EXCEPT !.id = id]
          IN  IF id = 0
              THEN Answer(r, "menuGet", NoHeader, body, NoUser, 400,
                          "Invalid menu item ID", NoToken)
              ELSE IF MenuById(menus, id) = {}
              THEN Answer(r, "menuGet", NoHeader, body, NoUser, 404,
                          "Menu item not found", NoToken)
              ELSE AnswerWith(r, "menuGet", NoHeader, body, NoUser, 200, "",
                              NoToken, CHOOSE m \in MenuById(menus, id) : TRUE)
    /\ UNCHANGED <<users, menus, tokens, apiNow, scope>>
    /\ ApiFrame

ApiInit ==
    /\ users \in {<< >>, <<SeedAdmin>>}
    /\ menus \in {{}, {SeedMenu}}
    /\ tokens = {}
    /\ apiNow = 0
    /\ req = [r \in Slots |-> Idle]
    /\ resp = NoResponse

ApiNext ==
    \/ registerUser
    \/ registerUserCreate
    \/ createAdmin
    \/ createAdminCreate
    \/ login
    \/ loginUpdate
    \/ getProfile
    \/ addItemMenu
    \/ addItemMenuCreate
    \/ editSingleMenuItem
    \/ deleteSingleMenuItem
    \/ Deliver
    \/ ApiTick

(***************************************************************************)
(* Specifications: one component runs, the others stay as constructed.     *)
(***************************************************************************)
RateQuiet ==
    /\ maxRequests = 1
    /\ windowMs = 1000
    /\ now = 0
    /\ rateLimiter = [k \in {} |-> << >>]
    /\ calls = << >>

ApiQuiet ==
    /\ users = << >>
    /\ menus = {}
    /\ tokens = {}
    /\ apiNow = 0
    /\ req = [r \in Slots |-> Idle]
    /\ resp = NoResponse
    /\ scope = "headers"

InitRate == RateInit /\ RetryInit /\ ApiQuiet

SpecRate == InitRate /\ [][RateNext]_vars

InitRetry == RateQuiet /\ RetryInit /\ ApiQuiet

SpecRetry == InitRetry /\ [][RetryNext]_vars

\* the API with every kind of Authorization header
InitAuthn == RateQuiet /\ RetryInit /\ ApiInit /\ scope = "headers"

SpecAuthn == InitAuthn /\ [][ApiNext]_vars

\* the API with every kind of request body
InitUsers ==
    RateQuiet /\ RetryInit /\ ApiInit /\ menus = {SeedMenu} /\ scope = "bodies"

SpecUsers == InitUsers /\ [][ApiNext]_vars

\* the API with two connections: requests overlap
InitRace ==
    RateQuiet /\ RetryInit /\ ApiInit /\ menus = {SeedMenu} /\ scope = "race"

\* the requests that read or write the users collection
UsersNext ==
    \/ registerUser
    \/ registerUserCreate
    \/ createAdmin
    \/ createAdminCreate
    \/ login
    \/ loginUpdate
    \/ getProfile
    \/ Deliver
    \/ ApiTick

SpecRace == InitRace /\ [][UsersNext]_vars

\* the user routes with bodies that ask for a role and with a forged token,
\* on a collection with or without an admin
InitAdmin ==
    RateQuiet /\ RetryInit /\ ApiInit /\ menus = {SeedMenu} /\ scope = "admin"

SpecAdmin == InitAdmin /\ [][UsersNext]_vars

\* the user routes while accounts are deactivated, reactivated and change role
InitAccounts ==
    /\ RateQuiet /\ RetryInit /\ ApiInit
    /\ users = <<SeedAdmin>> /\ menus = {SeedMenu} /\ scope = "accounts"

AccountsNext ==
    \/ registerUser
    \/ registerUserCreate
    \/ createAdmin
    \/ createAdminCreate
    \/ login
    \/ loginUpdate
    \/ getProfile
    \/ AccountChange
    \/ Deliver
    \/ ApiTick

SpecAccounts == InitAccounts /\ [][AccountsNext]_vars

\* the menu routes, two requests at a time, on a collection that has documents
InitMenu ==
    /\ RateQuiet /\ RetryInit
    /\ users = <<SeedAdmin>>
    /\ menus \in {{}, {SeedMenu}, {SeedMenu, SeedMenu2}}
    /\ tokens = {}
    /\ apiNow = 0
    /\ req = [r \in Slots |-> Idle]
    /\ resp = NoResponse
    /\ scope = "menu"

MenuNext ==
    \/ login
    \/ loginUpdate
    \/ addItemMenu
    \/ addItemMenuCreate
    \/ editSingleMenuItem
    \/ deleteSingleMenuItem
    \/ Deliver
    \/ ApiTick

SpecMenu == InitMenu /\ [][MenuNext]_vars

\* an item's life: the admin creates and deletes, anyone lists and gets
InitLife ==
    /\ RateQuiet /\ RetryInit
    /\ users = <<SeedAdmin>>
    /\ menus \in {{}, {SeedMenu}, {SeedMenu, SeedMenu2}}
    /\ tokens = {}
    /\ apiNow = 0
    /\ req = [r \in Slots |-> Idle]
    /\ resp = NoResponse
    /\ scope = "life"

LifeNext ==
    \/ login
    \/ loginUpdate
    \/ addItemMenu
    \/ addItemMenuCreate
    \/ deleteSingleMenuItem
    \/ getAllMenu
    \/ getAllMenuRest
    \/ getSingleMenuItem
    \/ Deliver
    \/ ApiTick

SpecLife == InitLife /\ [][LifeNext]_vars

\* the admin creates and updates with every kind of price
InitPrice ==
    /\ RateQuiet /\ RetryInit
    /\ users = <<SeedAdmin>>
    /\ menus \in {{}, {SeedMenu}, {SeedMenu, SeedMenu2}}
    /\ tokens = {}
    /\ apiNow = 0
    /\ req = [r \in Slots |-> Idle]
    /\ resp = NoResponse
    /\ scope = "price"

PriceNext ==
    \/ login
    \/ loginUpdate
    \/ addItemMenu
    \/ addItemMenuCreate
    \/ editSingleMenuItem
    \/ Deliver
    \/ ApiTick

SpecPrice == InitPrice /\ [][PriceNext]_vars

\* the public menu routes on every collection made of the documents above
InitList ==
    /\ RateQuiet /\ RetryInit
    /\ users = << >>
    /\ menus \in SUBSET {SeedMenu, SeedMenu2, SeedMenu3, SeedMenu4}
    /\ tokens = {}
    /\ apiNow = 0
    /\ req = [r \in Slots |-> Idle]
    /\ resp = NoResponse
    /\ scope = "list"

ListNext ==
    \/ getAllMenu
    \/ getAllMenuRest
    \/ getSingleMenuItem
    \/ Deliver

SpecList == InitList /\ [][ListNext]_vars

(***************************************************************************)
(* Claims about the rate limiter.                                          *)
(***************************************************************************)
\* calls j < i of the same client that were allowed less than one window before call i
AllowedInWindow(i) ==
    {j \in 1..(i - 1) : /\ calls[j].client = calls[i].client
                        /\ calls[j].next
                        /\ calls[j].at > calls[i].at - windowMs}

\* C1: once maxRequests calls of a client were allowed within one window, the
\* client's next call inside that window is rejected with 429; and a call made
\* when a full window has elapsed since every allowed call of the client is
\* allowed again.
C1_RejectThenAllowAgain ==
    \A i \in 1..Len(calls) :
        /\ Cardinality(AllowedInWindow(i)) >= maxRequests
              => (calls[i].status = 429 /\ ~calls[i].next)
        /\ AllowedInWindow(i) = {}
              => (calls[i].next /\ calls[i].status # 429)

\* a client was allowed maxRequests times, rejected inside the window, and
\* allowed again after the window
C1_Witness ==
    \E i, k \in 1..Len(calls) :
        /\ i < k
        /\ calls[i].client = calls[k].client
        /\ calls[i].status = 429
        /\ Cardinality(AllowedInWindow(i)) = maxRequests
        /\ calls[k].next
        /\ AllowedInWindow(k) = {}

Recorded(clientIP) == CurrentRequests(rateLimiter, clientIP)

LastCall == calls[Len(calls)]

\* what one call of the middleware did to the map: client c's timestamps went
\* from Recorded(c) to kept (on a rejection) or to kept with the call's time
\* appended, and nobody else's changed
C2_Effect(c, r, kept, hintOk) ==
    /\ IF Len(kept) >= maxRequests
       THEN /\ r.status = 429
            /\ hintOk
            /\ ~r.next
            /\ CurrentRequests(rateLimiter', c) = kept
       ELSE /\ r.next
            /\ CurrentRequests(rateLimiter', c) = Append(kept, r.at)
    /\ \A other \in Clients \ {c} :
            CurrentRequests(rateLimiter', other) = Recorded(other)

\* C2 (as amended): a call drops the client's timestamps that are not newer than
\* now - window; with maxRequests or more timestamps left it is rejected with
\* 429, retryAfter is the window length in whole seconds rounded up, next is not
\* called and now is not recorded; otherwise now is appended and next is called.
\* No other client's timestamps change.
C2_AllowStep ==
    [][Len(calls') = Len(calls) + 1 =>
        \A c \in Clients : calls'[Len(calls')].client = c =>
            LET r == calls'[Len(calls')]
            IN  C2_Effect(c, r,
                    SelectSeq(Recorded(c), LAMBDA t : t > now - windowMs),
                    /\ r.retryAfter * 1000 >= windowMs
                    /\ (r.retryAfter - 1) * 1000 < windowMs)]_vars

\* a rejected call that dropped an old timestamp, kept the newer ones, and left
\* another client's timestamps in place
C2_Witness ==
    /\ Len(calls) >= 3
    /\ LastCall.status = 429
    /\ \E j \in 1..(Len(calls) - 1) :
          /\ calls[j].client = LastCall.client
          /\ calls[j].next
          /\ calls[j].at <= LastCall.at - windowMs
    /\ Len(Recorded(LastCall.client)) = maxRequests
    /\ \E other \in Clients \ {LastCall.client} : Recorded(other) # << >>

\* C2 as stated: only timestamps older than now - window are dropped, and the
\* retry-after hint equals the window length.
C2_AsStated ==
    [][Len(calls') = Len(calls) + 1 =>
        \A c \in Clients : calls'[Len(calls')].client = c =>
            LET r == calls'[Len(calls')]
            IN  C2_Effect(c, r,
                    SelectSeq(Recorded(c), LAMBDA t : t >= now - windowMs),
                    r.retryAfter * 1000 = windowMs)]_vars

(***************************************************************************)
(* Claims about the timeout / retry helpers.                               *)
(***************************************************************************)
Retrying == call.wrapped = "withRetry"

TimedOut == call.fn \in {"withTimeout", "dbOperationWithTimeout"}

ClientStatuses == 400..499

Attempts == Len(invocations)

LastAttempt == invocations[Attempts]

\* C5: a failure of the wrapped operation that carries a status in 400..499 is
\* re-raised at once by withRetry, whatever maxRetries >= 1 is and whichever
\* attempt it happens in: the failing invocation is the last one (so an
\* operation whose first failure is a client error is invoked exactly once).
C5_ClientErrorNotRetried ==
    Retrying =>
        \A k \in 1..Attempts :
            (~invocations[k].ok /\ invocations[k].status \in ClientStatuses) =>
                /\ k = Attempts
                /\ pc = "thrown"
                /\ settled = Failure(invocations[k].status, invocations[k].end)

\* withRetry with attempts to spare gave up after one invocation, on a 400
C5_Witness ==
    /\ Retrying
    /\ call.maxRetries >= 2
    /\ Attempts = 1
    /\ invocations[1].status = 400
    /\ pc = "thrown"
    /\ settled.kind = "error"

\* C7: withRetry re-invokes after a failure without a 4xx status, attempt k+1
\* starting baseDelay * 2^(k-1) after attempt k failed (k counted from 1), and
\* makes at most maxRetries attempts; it returns the first successful result
\* with no further invocation, and when every attempt failed it raises the
\* last attempt's failure at the moment that attempt failed.
C7_RetryBackoff ==
    Retrying =>
        /\ Attempts <= call.maxRetries
        /\ \A k \in 2..Attempts :
              /\ ~invocations[k - 1].ok
              /\ invocations[k - 1].status \notin ClientStatuses
              /\ invocations[k].start
                    = invocations[k - 1].end + call.delay * 2 ^ (k - 2)
        /\ (pc = "calling" /\ Attempts >= 1) =>
              opStart = LastAttempt.end + call.delay * 2 ^ (Attempts - 1)
        /\ pc = "backoff" =>
              /\ Attempts < call.maxRetries
              /\ due = LastAttempt.end + call.delay * 2 ^ (Attempts - 1)
        /\ pc = "returned" =>
              /\ LastAttempt.ok
              /\ settled = Value(LastAttempt.value, LastAttempt.end)
        /\ pc = "thrown" =>
              /\ ~LastAttempt.ok
              /\ settled = Failure(LastAttempt.status, LastAttempt.end)
              /\ LastAttempt.status \in ClientStatuses \/ Attempts = call.maxRetries
        /\ pc \in {"calling", "backoff"} => settled = Pending

\* three attempts, the waits doubling, all failed: the third failure is raised
C7_Witness ==
    /\ Retrying
    /\ call.maxRetries = 3
    /\ Attempts = 3
    /\ pc = "thrown"
    /\ invocations[2].start = invocations[1].end + call.delay
    /\ invocations[3].start = invocations[2].end + 2 * call.delay
    /\ settled = Failure(invocations[3].status, invocations[3].end)

AllFailedNonClient ==
    \A k \in 1..Attempts :
        ~invocations[k].ok /\ invocations[k].status \notin ClientStatuses

\* what dbOperationWithTimeout promises apart from the number of attempts: the
\* 500 ms wait, and one overall timer of 20 seconds from the call, after which
\* the caller has 'Database operation timeout' unless it already had an outcome
DbTimeoutBound ==
    /\ \A k \in 2..Attempts :
          invocations[k].start = invocations[k - 1].end + 500 * 2 ^ (k - 2)
    /\ outcome.kind = "timeout" =>
          /\ outcome.at = 20000
          /\ outcome.message = "Database operation timeout"
    /\ outcome.kind \in {"value", "error"} =>
          /\ outcome = settled
          /\ outcome.at <= 20000
    /\ (clock > 20000 \/ timer = "fired") => outcome.kind # "pending"

\* C6 (as amended): dbOperationWithTimeout invokes an operation that keeps
\* failing with non-client errors twice in all (one retry after the first
\* invocation), waiting 500 ms before the retry; one overall 20-second timer
\* bounds the whole, after which the caller has 'Database operation timeout'.
C6_DbOperation ==
    call.fn = "dbOperationWithTimeout" =>
        /\ Attempts <= 2
        /\ (pc = "thrown" /\ AllFailedNonClient) => Attempts = 2
        /\ DbTimeoutBound

\* the operation failed, was retried 500 ms later, the timer fired while the
\* retry was in flight, and the retry failed after that
C6_Witness ==
    /\ call.fn = "dbOperationWithTimeout"
    /\ Attempts = 2
    /\ AllFailedNonClient
    /\ pc = "thrown"
    /\ outcome.kind = "timeout"
    /\ settled.at > outcome.at

\* C6 as stated: two retries after the first invocation, three invocations in all
C6_AsStated ==
    call.fn = "dbOperationWithTimeout" =>
        /\ Attempts <= 3
        /\ (pc = "thrown" /\ AllFailedNonClient) => Attempts = 3
        /\ DbTimeoutBound

\* the caller's outcome is that of the wrapped promise or of the timer,
\* whichever settled first
FirstSettled ==
    /\ outcome.kind = "pending" <=> (settled.kind = "pending" /\ timer # "fired")
    /\ outcome.kind = "timeout" =>
          /\ timer = "fired"
          /\ outcome = Timeout(call.message, call.timeoutMs)
          /\ settled.kind # "pending" => settled.at >= outcome.at
    /\ outcome.kind \in {"value", "error"} =>
          /\ outcome = settled
          /\ timer = "fired" => call.timeoutMs >= outcome.at

\* C8: withTimeout gives its caller the outcome of whichever settles first, the
\* wrapped promise or the timer (Timeout when it is the timer); the operation
\* is not cancelled by the timer, and once the caller has an outcome no later
\* completion changes it.
C8_FirstSettledWins ==
    [][TimedOut' =>
          /\ FirstSettled'
          /\ outcome.kind # "pending" => outcome' = outcome]_vars

\* the caller got Timeout and the abandoned operation completed afterwards
C8_Witness ==
    /\ TimedOut
    /\ outcome.kind = "timeout"
    /\ pc = "returned"
    /\ settled.kind = "value"
    /\ settled.at > outcome.at

(***************************************************************************)
(* Claims about the API.                                                   *)
(***************************************************************************)
AdminRoutes == {"adminCreate", "menuPost", "menuPut", "menuDelete"}

ProtectedRoutes == AdminRoutes \cup {"profile"}

RegistrationRoutes == {"register", "adminCreate"}

\* a request is answered in this step
Answered == resp = NoResponse /\ resp' # NoResponse

\* ... in the step in which it arrived
AnsweredOnArrival == Answered /\ req' = req

\* a request arrives on connection r and its handler awaits the database
Arrives(r) == req[r].pc = "idle" /\ req'[r].pc # "idle"

\* the token a header presents, with or without the Bearer prefix
Presented(header) ==
    IF header.prefix \in {"Bearer ", ""} THEN header.token ELSE Garbage

Genuine(token) == token.kind = "jwt" /\ token.signed

NotYetActive(token, t) == token.nbf # Never /\ token.nbf > t

Expired(token, t) == token.exp # Never /\ t >= token.exp

ValidAt(token, t) ==
    Genuine(token) /\ ~NotYetActive(token, t) /\ ~Expired(token, t)

HeaderAbsent(header) ==
    header.prefix = "absent" \/ (header.prefix = "" /\ header.token.kind = "empty")

StoresUnchanged == users' = users /\ menus' = menus /\ tokens' = tokens

GainsAdmin ==
    \E k \in 1..Len(users') : k > Len(users) /\ users'[k].role = "admin"

\* what C3 says of one request to an admin-only route, seen when it arrives
C3_Arrival(route, header, user, stage, status, t) ==
    route \in AdminRoutes =>
        LET token == Presented(header) IN
        /\ stage = "handler" =>
              /\ ~HeaderAbsent(header)
              /\ ValidAt(token, t)
              /\ token.role = "admin"
              /\ user = Decoded(token)
        /\ HeaderAbsent(header) => status = 401 /\ stage # "handler"
        /\ ~HeaderAbsent(header) /\ ValidAt(token, t) /\ token.role # "admin" =>
              status = 403 /\ stage = "authorize"
        /\ ~HeaderAbsent(header) /\ ValidAt(token, t) /\ token.role = "admin" =>
              stage = "handler"

\* C3: on the admin-only routes (POST/PUT/DELETE menu, POST auth/admin/create)
\* the handler runs, and the store changes, only for a request whose token
\* verified and carries the admin role; the authorization step answers 401
\* when no identity is attached; a valid token with another role gets 403
\* and the store is unchanged; an admin token reaches the handler.
C3_AdminOnly ==
    [][/\ \A roles \in SUBSET {"admin", "user"} :
             authorize(roles, NoUser).status = 401 /\ ~authorize(roles, NoUser).next
       /\ AnsweredOnArrival =>
             /\ C3_Arrival(resp'.route, resp'.header, resp'.user, resp'.stage,
                           resp'.status, apiNow)
             /\ resp'.route \in AdminRoutes /\ resp'.stage # "handler" =>
                   StoresUnchanged
       /\ \A r \in Slots :
             Arrives(r) =>
                C3_Arrival(req'[r].route, req'[r].header, req'[r].user,
                           "handler", 0, apiNow)
       /\ \A r \in Slots :
             req[r].pc # "idle" /\ req[r].route \in AdminRoutes =>
                req[r].user.role = "admin" /\ Presented(req[r].header) \in tokens
       /\ menus' # menus =>
             /\ Answered
             /\ resp'.route \in AdminRoutes
             /\ resp'.stage = "handler"
             /\ resp'.user.role = "admin"
       /\ GainsAdmin =>
             /\ Answered
             /\ resp'.route = "adminCreate"
             /\ resp'.stage = "handler"
             /\ resp'.user.role = "admin"
      ]_vars

\* a registered user's token on POST /api/v1/menu was answered 403
C3_Witness ==
    /\ resp.route = "menuPost"
    /\ resp.status = 403
    /\ resp.stage = "authorize"
    /\ resp.header.token \in tokens
    /\ resp.header.token.role = "user"

\* an admin's request changed the menu
C3_WitnessAdmin ==
    /\ resp.route \in {"menuPut", "menuDelete"}
    /\ resp.status = 200
    /\ resp.user.role = "admin"
    /\ SeedMenu \notin menus

\* what authMiddleware does with one request to a protected route
C4_Arrival(route, header, user, stage, status, t, bearerOnly) ==
    route \in ProtectedRoutes =>
        LET token == Presented(header)
            denied == stage = "authMiddleware"
        IN
        /\ HeaderAbsent(header) => denied /\ status = 401
        /\ ~HeaderAbsent(header) /\ Genuine(token) /\ ~NotYetActive(token, t)
              /\ Expired(token, t) => denied /\ status = 401
        /\ ~HeaderAbsent(header) /\ ~Genuine(token) => denied /\ status = 403
        /\ ~HeaderAbsent(header) /\ Genuine(token) /\ NotYetActive(token, t) =>
              denied /\ status = 403
        /\ denied => user = NoUser /\ status \in {401, 403}
        /\ ~denied =>
              /\ ~HeaderAbsent(header)
              /\ ValidAt(token, t)
              /\ stage = "handler" => user = Decoded(token)
              /\ bearerOnly => header.prefix = "Bearer "

C4_Step(bearerOnly) ==
    /\ AnsweredOnArrival =>
          /\ C4_Arrival(resp'.route, resp'.header, resp'.user, resp'.stage,
                        resp'.status, apiNow, bearerOnly)
          /\ resp'.stage = "authMiddleware" => StoresUnchanged
    /\ \A r \in Slots :
          Arrives(r) =>
             C4_Arrival(req'[r].route, req'[r].header, req'[r].user, "handler",
                        0, apiNow, bearerOnly)

\* C4 (amended): authMiddleware reads the token from the Authorization header,
\* written as "Bearer <token>" or as the bare token; a missing header yields
\* 401, a correctly signed token past its expiry 401, a malformed or badly
\* signed token and a token that is not yet valid 403; in these cases the next
\* handler is not called and no identity is attached; only a token that
\* verifies gets its claims (userId, email, role) attached and the next handler
\* called.
C4_Authentication == [][C4_Step(FALSE)]_vars

\* an issued token that has expired was answered 401
C4_Witness ==
    /\ resp.route \in ProtectedRoutes
    /\ resp.stage = "authMiddleware"
    /\ resp.status = 401
    /\ resp.header.token \in tokens
    /\ Expired(resp.header.token, apiNow)

\* a bare token, without the Bearer prefix, was let through
C4_WitnessBare ==
    /\ resp.route = "profile"
    /\ resp.stage = "handler"
    /\ resp.status = 200
    /\ resp.header.prefix = ""

\* C4 as stated: as above, and only a header of the form "Bearer <token>" is
\* let through
C4_AsStated == [][C4_Step(TRUE)]_vars

\* the e-mail or the phone number is already registered (the stored values
\* are trimmed, the e-mail lower-cased)
Registered(body) ==
    \E k \in 1..Len(users) :
        \/ users[k].email = ToLowerCase(Trim(body.email))
        \/ users[k].phoneNumber = Trim(body.phoneNumber)

AllGiven(body) ==
    ~IsBlank(body.name) /\ ~IsBlank(body.email) /\ ~IsBlank(body.phoneNumber)
        /\ ~IsBlank(body.password)

\* a registration request reaches its handler in this step and is answered
RegistrationAnswered ==
    /\ AnsweredOnArrival
    /\ resp'.route \in RegistrationRoutes
    /\ resp'.stage = "handler"

\* a registration request reaches its handler in this step and goes on to
\* User.create
RegistrationProceeds(r) == Arrives(r) /\ req'[r].route \in RegistrationRoutes

C9_Step(whenAllGiven) ==
    /\ RegistrationAnswered /\ Registered(resp'.body)
          /\ (whenAllGiven => AllGiven(resp'.body)) =>
             resp'.status = 409 /\ users' = users
    /\ \A r \in Slots :
          RegistrationProceeds(r) => ~Registered(req'[r].body)

\* C9 (amended): registerUser and createAdmin: when name, e-mail, phone number
\* and password are all given (not blank) and the e-mail or the phone number
\* is already registered, the request yields 409 and creates no user,
\* whatever the other fields are.
C9_DuplicateConflict == [][C9_Step(TRUE)]_vars

\* a registration with a new e-mail and a registered phone number got 409
C9_Witness ==
    /\ resp.route \in RegistrationRoutes
    /\ resp.status = 409
    /\ resp.message = "User with this phone number already exists"
    /\ \A k \in 1..Len(users) : users[k].email # ToLowerCase(Trim(resp.body.email))

\* C9 as stated: 409 whenever the e-mail or phone number is registered
C9_AsStated == [][C9_Step(FALSE)]_vars

C10_Step(statuses) ==
    /\ RegistrationAnswered /\ Length(resp'.body.password) < 6 =>
          /\ users' = users
          /\ resp'.status \in statuses
          /\ resp'.status = 409 <=> AllGiven(resp'.body) /\ Registered(resp'.body)
    /\ \A r \in Slots :
          RegistrationProceeds(r) => Length(req'[r].body.password) >= 6

\* C10 (amended): a registration whose password is shorter than 6 characters
\* is always rejected before any store mutation: with 409 when all fields are
\* given and the e-mail or phone number is already registered, with 400
\* otherwise.
C10_ShortPassword == [][C10_Step({400, 409})]_vars

\* a five-character password was answered 400 by the length check
C10_Witness ==
    /\ resp.route \in RegistrationRoutes
    /\ resp.status = 400
    /\ resp.message = "Password must be at least 6 characters long"
    /\ Length(resp.body.password) = 5

\* C10 as stated: the answer to a short password is always 400
C10_AsStated ==
    [][RegistrationAnswered /\ Length(resp'.body.password) < 6 =>
          resp'.status = 400 /\ users' = users]_vars

(***************************************************************************)
(* Claims about the stored users and about login.                          *)
(***************************************************************************)
\* C11: in every state reached by any sequence and interleaving of register,
\* createAdmin and login requests no two stored users have the same e-mail
\* and no two have the same phone number.
C11_UsersUnique ==
    \A j, k \in 1..Len(users) :
        j # k => /\ users[j].email # users[k].email
                 /\ users[j].phoneNumber # users[k].phoneNumber

\* two registrations overlapped: the second one passed the duplicate lookup
\* and its User.create was refused by the unique index
C11_Witness ==
    /\ resp.route \in RegistrationRoutes
    /\ resp.status = 500
    /\ UserSchemaValid(NewUser(resp.body, "user", 0, Hash(resp.body.password), 0))
    /\ \E k \in 1..Len(users) :
          \/ users[k].email = ToLowerCase(Trim(resp.body.email))
          \/ users[k].phoneNumber = Trim(resp.body.phoneNumber)

\* the stored account with the e-mail of a login body, 0 when there is none
AccountOf(body) ==
    LET hits == {k \in 1..Len(users) : users[k].email = ToLowerCase(Trim(body.email))}
    IN  IF hits = {} THEN 0 ELSE CHOOSE k \in hits : TRUE

CredentialsGiven(body) == ~IsBlank(body.email) /\ ~IsBlank(body.password)

PasswordMatches(body) ==
    AccountOf(body) # 0 /\ users[AccountOf(body)].password = Hash(body.password)

\* what the client sees of a response
Visible(response) ==
    [status |-> response.status, message |-> response.message,
     token |-> response.token, data |-> response.data]

InvalidCredentials ==
    [status |-> 401, message |-> "Invalid email or password", token |-> NoToken,
     data |-> NoData]

\* a login request is answered in the step in which it arrives
LoginAnswered == AnsweredOnArrival /\ resp'.route = "login"

C12_Step(activeOnly) ==
    LoginAnswered /\ CredentialsGiven(resp'.body) =>
       LET k == AccountOf(resp'.body) IN
       /\ k = 0 => Visible(resp') = InvalidCredentials
       /\ k # 0 /\ ~PasswordMatches(resp'.body)
             /\ (activeOnly => users[k].isActive) =>
                Visible(resp') = InvalidCredentials

\* C12 (amended): login with the e-mail of an active registered account and a
\* wrong password, and login with an e-mail that is not registered, get the
\* same status (401) and the same message, token and user object: the two
\* responses cannot be told apart.  (A deactivated account is answered
\* "Account is deactivated", whatever the password.)
C12_NoEnumeration == [][C12_Step(TRUE)]_vars

\* a registered, active account and a wrong password: 401 Invalid email or
\* password
C12_Witness ==
    /\ resp.route = "login"
    /\ CredentialsGiven(resp.body)
    /\ AccountOf(resp.body) # 0
    /\ users[AccountOf(resp.body)].isActive
    /\ ~PasswordMatches(resp.body)
    /\ Visible(resp) = InvalidCredentials

\* C12 as stated: every registered e-mail with a wrong password is answered
\* like an unregistered e-mail
C12_AsStated == [][C12_Step(FALSE)]_vars

\* C13: no response carries a user's password (hash): the user object
\* returned by a successful register, createAdmin, login or getProfile has no
\* password field, and neither has the token's payload.
C13_NoPasswordReturned ==
    /\ "password" \notin DOMAIN resp.data
    /\ "password" \notin DOMAIN Decoded(resp.token)
    /\ resp.status \in {200, 201} /\ resp.route \in {"register", "adminCreate", "login", "profile"} =>
          /\ DOMAIN resp.data # {}
          /\ \A f \in DOMAIN resp.data : f \in DOMAIN NoDoc \ {"password"}

\* a successful login returned the user object
C13_Witness ==
    /\ resp.route = "login"
    /\ resp.status = 200
    /\ DOMAIN resp.data = LoginFields
    /\ users[resp.data["id"]].password = Hash(resp.body.password)

\* the login on connection r gets its answer in this step
LoginCompletes(r) ==
    req[r].pc = "update" /\ req[r].route = "login" /\ req'[r].pc = "idle"

\* the users collection after the login of document doc at day t
AfterLogin(doc, t, withUpdatedAt) ==
    IF withUpdatedAt
    THEN [users EXCEPT ![doc.id].lastLogin = t, ![doc.id].updatedAt = t]
    ELSE [users EXCEPT ![doc.id].lastLogin = t]

C14_Step(withUpdatedAt) ==
    /\ LoginAnswered =>
          /\ resp'.status # 200
          /\ CredentialsGiven(resp'.body)
                /\ (\/ AccountOf(resp'.body) = 0
                    \/ ~users[AccountOf(resp'.body)].isActive
                    \/ ~PasswordMatches(resp'.body)) =>
                /\ resp'.status = 401
                /\ resp'.token = NoToken
                /\ users' = users
                /\ tokens' = tokens
    /\ \A r \in Slots :
          Arrives(r) /\ req'[r].route = "login" =>
             /\ AccountOf(req'[r].body) # 0
             /\ users[AccountOf(req'[r].body)].isActive
             /\ PasswordMatches(req'[r].body)
             /\ req'[r].found = users[AccountOf(req'[r].body)]
             /\ users' = users /\ tokens' = tokens
    /\ \A r \in Slots :
          LoginCompletes(r) =>
             LET doc == req[r].found IN
             /\ resp'.status = 200
             /\ users' = AfterLogin(doc, apiNow, withUpdatedAt)
             /\ resp'.token = Jwt(doc.id, doc.email, doc.role, apiNow)
             /\ resp'.token \in tokens'
             /\ ValidAt(resp'.token, apiNow)
    /\ Answered /\ resp'.route = "login" /\ resp'.status = 200 =>
          \E r \in Slots : LoginCompletes(r)

\* C14 (amended): login fails with 401, issues no token and leaves every
\* user record unchanged when the e-mail is unknown, the account is inactive
\* or the password does not match; every successful login sets that user's
\* lastLogin and, with it, the store-managed updatedAt (no other field, no
\* other user) and issues a new token.
C14_LoginEffect == [][C14_Step(TRUE)]_vars

\* a login succeeded: lastLogin is set and the token is issued
C14_Witness ==
    /\ resp.route = "login"
    /\ resp.status = 200
    /\ resp.token \in tokens
    /\ users[resp.data["id"]].lastLogin = apiNow
    /\ users[resp.data["id"]].createdAt < apiNow

\* a login failed on a deactivated account
C14_WitnessInactive ==
    /\ resp.route = "login"
    /\ resp.status = 401
    /\ AccountOf(resp.body) # 0
    /\ ~users[AccountOf(resp.body)].isActive
    /\ PasswordMatches(resp.body)

\* C14 as stated: a successful login changes lastLogin and nothing else
C14_AsStated == [][C14_Step(FALSE)]_vars

\* what C15 says of one request to a protected route that presents an issued
\* token before its expiry
C15_Arrival(route, header, user, stage, t) ==
    /\ route \in ProtectedRoutes
    /\ header.prefix = "Bearer "
    /\ header.token \in tokens
    /\ t < header.token.iat + TokenLifetimeDays
    => /\ stage # "authMiddleware"
       /\ stage = "handler" => user = Decoded(header.token)
       /\ route \in AdminRoutes =>
             (stage = "handler" <=> header.token.role = "admin")
       /\ route \notin AdminRoutes => stage = "handler"

\* C15: token verification is stateless: an issued token is accepted by the
\* auth middleware at every time before its 7-day expiry, whatever has
\* happened to the account since (deactivation, role change), and
\* authorization uses the role encoded in the token, not the stored one.
C15_StatelessTokens ==
    [][/\ AnsweredOnArrival =>
             C15_Arrival(resp'.route, resp'.header, resp'.user, resp'.stage, apiNow)
       /\ \A r \in Slots :
             Arrives(r) =>
                C15_Arrival(req'[r].route, req'[r].header, req'[r].user,
                            "handler", apiNow)
      ]_vars

\* days after it was issued, the admin token of an account that has since
\* been demoted and deactivated reached the admin-only handler
C15_Witness ==
    /\ resp.route = "adminCreate"
    /\ resp.stage = "handler"
    /\ resp.header.token \in tokens
    /\ resp.header.token.role = "admin"
    /\ resp.header.token.iat < apiNow
    /\ users[resp.user.userId].role = "user"
    /\ ~users[resp.user.userId].isActive


\* ---- menu item names ----

NamesUnique(ms) == \A a, b \in ms : a.name = b.name => a = b

\* the trimmed name of the body is the name of a stored item
NameTaken(body) == \E m \in menus : m.name = Trim(body.name)

\* name, price and category pass the checks addItemMenu makes before it
\* looks the name up
MenuBodyChecked(body) ==
    /\ ~IsBlank(body.name) /\ ~PriceFalsy(body.price) /\ ~IsBlank(body.category)
    /\ ~PriceInvalid(body.price)
    /\ body.category \in validCategories

\* an admin's create request reaches addItemMenu in this step and is answered
CreateAnswered ==
    /\ AnsweredOnArrival
    /\ resp'.route = "menuPost"
    /\ resp'.stage = "handler"

C16_Step(whenChecked) ==
    /\ NamesUnique(menus) /\ NamesUnique(menus')
    /\ CreateAnswered /\ NameTaken(resp'.body)
          /\ (whenChecked => MenuBodyChecked(resp'.body)) =>
             resp'.status = 409 /\ menus' = menus
    /\ \A r \in Slots :
          Arrives(r) /\ req'[r].route = "menuPost" => ~NameTaken(req'[r].body)

HandlerAnswers(route) ==
    Answered /\ resp'.route = route /\ resp'.stage = "handler"

\* an admin's create of {category "SPECIAL", price 2500} under a name that
\* no stored item has comes to its answer
SpecialCreateAnswered ==
    /\ HandlerAnswers("menuPost")
    /\ resp'.body.category = Special
    /\ resp'.body.price = Num(2500)
    /\ ~NameTaken(resp'.body)

C17_Step ==
    /\ SpecialCreateAnswered =>
          /\ resp'.status = 201
          /\ resp'.data \in menus'
          /\ resp'.data.name = Trim(resp'.body.name)
          /\ resp'.data.price = 2500
    /\ HandlerAnswers("menuList") /\ resp'.body.category = Str("special")
          /\ resp'.body.minPrice = QInt(1000) /\ resp'.body.maxPrice = QInt(3000) =>
          /\ resp'.status = 200
          /\ \A m \in menus :
                m.category = Str("special") /\ m.price = 2500 =>
                   \E k \in 1..Len(resp'.data.items) : resp'.data.items[k] = m
    /\ HandlerAnswers("menuDelete") /\ MenuById(menus, resp'.body.id) # {} =>
          /\ resp'.status = 200
          /\ resp'.data.id = resp'.body.id
          /\ MenuById(menus', resp'.body.id) = {}
    /\ HandlerAnswers("menuGet") /\ resp'.body.id # 0
          /\ MenuById(menus, resp'.body.id) = {} =>
          resp'.status = 404

\* C17 as stated: creating an item with category "SPECIAL" and price 2500 as
\* admin returns 201 with the created record; a list request with
\* category=special, minPrice=1000, maxPrice=3000 returns that item; deleting
\* it as admin returns 200 with the same id; a GET of an id that is not
\* stored returns 404.
C17_AsStated == [][C17_Step]_vars

\* what the create of C17 is answered: 400 "Validation failed", nothing stored
C17_Observed ==
    [][SpecialCreateAnswered =>
          resp'.status = 400 /\ resp'.message = "Validation failed"
             /\ menus' = menus]_vars

\* ---- the list endpoint ----

\* the query of the list request that resp answers
Asked == [f \in DOMAIN NoQuery |-> resp.body[f]]

\* the number a parameter asks for: the default when it is not given
Requested(v, dflt) == IF v.kind = "undefined" THEN dflt ELSE v.n

IsNumber(v) == v.kind \in {"undefined", "digits"}

Clamp(x, lo, hi) == IF x < lo THEN lo ELSE IF x > hi THEN hi ELSE x

AtLeast(lo, x) == IF x < lo THEN lo ELSE x

\* no price bound of the query is a text that is not a number
PricesAreNumbers(query) ==
    query.minPrice.kind # "word" /\ query.maxPrice.kind # "word"

\* items is what is left of s after offset documents, limit at most
SliceOf(items, s, offset, limit) ==
    /\ Len(items) <= limit
    /\ \A k \in 1..Len(items) : offset + k <= Len(s) /\ items[k] = s[offset + k]
    /\ Len(items) < limit => offset + Len(items) >= Len(s)

\* a list request answered 200
Listed == resp.route = "menuList" /\ resp.status = 200

\* C18: for every page and limit asked for as numbers, the list is answered
\* with itemsPerPage = clamp(limit, 1, 50) and currentPage = max(1, page); it
\* has at most itemsPerPage items, and they are the matching documents, in
\* the order of the sort, from offset (currentPage - 1) * itemsPerPage on.
C18_Pagination ==
    resp.route = "menuList" /\ IsNumber(Asked.page) /\ IsNumber(Asked.limit)
          /\ PricesAreNumbers(Asked) =>
       LET limit == Clamp(Requested(Asked.limit, 10), 1, 50)
           page == AtLeast(1, Requested(Asked.page, 1))
           items == resp.data.items
       IN  /\ resp.status = 200
           /\ resp.data.pagination.itemsPerPage = limit
           /\ resp.data.pagination.currentPage = page
           /\ Len(items) <= limit
           /\ \E s \in Sorted(Matched(menus, Asked), SortField(Asked.sortBy),
                              SortDirection(Asked.sortOrder)) :
                  SliceOf(items, s, (page - 1) * limit, limit)

\* page 0 and limit 51 were asked for: page 1 of 50 per page came back, with
\* all four documents
C18_Witness ==
    /\ Listed
    /\ Asked.page = QInt(0) /\ Asked.limit = QInt(51)
    /\ resp.data.pagination.currentPage = 1
    /\ resp.data.pagination.itemsPerPage = 50
    /\ Len(resp.data.items) = 4

\* document m passes every filter the query gives: the category, the
\* availability and the two price bounds, each only if given
Satisfies(m, query) ==
    /\ ~IsBlank(query.category) => m.category = ToLowerCase(Trim(query.category))
    /\ query.isAvailable # "undefined" => m.isAvailable = (query.isAvailable = "true")
    /\ query.minPrice.kind = "digits" => query.minPrice.n <= m.price
    /\ query.maxPrice.kind = "digits" => m.price <= query.maxPrice.n

\* C19: in every 200 of the list endpoint each returned item has
\* minPrice <= price <= maxPrice for the bounds that are given, both
\* inclusive, and totalItems counts every stored document that passes all
\* the filters given.
C19_PriceFilter ==
    Listed =>
       /\ \A k \in 1..Len(resp.data.items) :
             LET price == resp.data.items[k].price
             IN  /\ Asked.minPrice.kind = "digits" => Asked.minPrice.n <= price
                 /\ Asked.maxPrice.kind = "digits" => price <= Asked.maxPrice.n
       /\ resp.data.pagination.totalItems =
             Cardinality({m \in menus : Satisfies(m, Asked)})

\* with minPrice=1000 and maxPrice=3000 the documents priced 1000 and 3000
\* are returned and the one priced 3500 is not
C19_Witness ==
    /\ Listed
    /\ HasPriceFilter(Asked)
    /\ Asked.minPrice = QInt(1000) /\ Asked.maxPrice = QInt(3000)
    /\ \E i, j \in 1..Len(resp.data.items) :
          resp.data.items[i].price = 1000 /\ resp.data.items[j].price = 3000
    /\ \E m \in menus : m.price = 3500
    /\ resp.data.pagination.totalItems = 3

\* the items come by creation time, latest first or earliest first
ByCreation(items, descending) ==
    \A i, j \in 1..Len(items) :
        i < j => IF descending THEN items[i].createdAt >= items[j].createdAt
                 ELSE items[i].createdAt <= items[j].createdAt

\* a sortBy that names no sortable field
UnknownSortBy(query) ==
    query.sortBy \notin {"undefined", "name", "price", "createdAt", "updatedAt",
                         "category"}

C20_Holds(alwaysDescending) ==
    resp.route = "menuList" /\ UnknownSortBy(Asked)
          /\ IsNumber(Asked.page) /\ IsNumber(Asked.limit)
          /\ PricesAreNumbers(Asked) =>
       /\ resp.status = 200
       /\ ByCreation(resp.data.items,
                     alwaysDescending \/ Asked.sortOrder # "asc")

\* C20 (amended): a list request (not a search) whose sortBy is not one of
\* name, price, createdAt, updatedAt, category is not rejected, and its
\* results are sorted by creation time in the order sortOrder asks for:
\* ascending when sortOrder is "asc", descending otherwise.
C20_SortFallback == C20_Holds(FALSE)

\* sortBy=rating with sortOrder=asc returned all four documents, the earliest
\* created first
C20_Witness ==
    /\ Listed
    /\ Asked.sortBy = "rating" /\ Asked.sortOrder = "asc"
    /\ Len(resp.data.items) = 4
    /\ resp.data.items[1].createdAt < resp.data.items[4].createdAt

\* C20 as stated: with an unknown sortBy the results are sorted by creation
\* time descending
C20_AsStated == C20_Holds(TRUE)

\* ---- prices ----

\* an admin's create under a name no stored item has and a recognized
\* category comes to its answer
FreshCreateAnswered ==
    /\ HandlerAnswers("menuPost")
    /\ ~IsBlank(resp'.body.name) /\ ~NameTaken(resp'.body)
    /\ resp'.body.category \in validCategories

PricesNonNegative(ms) == \A m \in ms : m.price >= 0

C21_Step ==
    /\ FreshCreateAnswered /\ resp'.body.price.kind = "number"
          /\ resp'.body.price.n >= 0 =>
          /\ resp'.status = 201
          /\ \E m \in menus' \ menus :
                m.name = Trim(resp'.body.name) /\ m.price = resp'.body.price.n
    /\ FreshCreateAnswered
          /\ (resp'.body.price.kind = "string"
                \/ (resp'.body.price.kind = "number" /\ resp'.body.price.n < 0)) =>
          resp'.status = 400 /\ menus' = menus
    /\ PricesNonNegative(menus) /\ PricesNonNegative(menus')

\* C21 as stated: an admin create with an unused name, a recognized category
\* and a numeric price >= 0, price 0 included, is accepted (201) and stored; a
\* negative or non-numeric price is rejected with 400 and stores nothing;
\* every stored menu item has price >= 0 after any sequence of create and
\* update requests.
C21_AsStated == [][C21_Step]_vars

\* what a create with price 0 is answered: 400, the price counts as missing
C21_ZeroRejected ==
    [][FreshCreateAnswered /\ resp'.body.price = Num(0) =>
          /\ resp'.status = 400
          /\ resp'.message = "Please provide name, price, and category"
          /\ menus' = menus]_vars

\* what holds of prices: a negative or non-numeric price is rejected with 400
\* on create and on update, an update to price 0 is stored, and no stored
\* price is ever negative
C21_Rejections ==
    [][/\ (HandlerAnswers("menuPost") \/ HandlerAnswers("menuPut"))
             /\ (resp'.body.price.kind = "string"
                   \/ (resp'.body.price.kind = "number" /\ resp'.body.price.n < 0)) =>
             resp'.status = 400 /\ menus' = menus
       /\ HandlerAnswers("menuPut") /\ resp'.body.price = Num(0)
             /\ MenuById(menus, resp'.body.id) # {} =>
             resp'.status = 200 /\ \E m \in menus' : m.id = resp'.body.id /\ m.price = 0
       /\ PricesNonNegative(menus')]_vars

\* ---- invocations after the timeout ----

\* withRetry's loop calls fn() in this step
InvocationBegins ==
    pc' = "calling" /\ (pc = "idle" \/ retryI' = retryI + 1)

\* the caller of dbOperationWithTimeout has been told that the operation
\* timed out
TimeoutDelivered ==
    call.fn = "dbOperationWithTimeout" /\ outcome.kind = "timeout"

\* C22 as stated: in dbOperationWithTimeout, once the timeout has been
\* delivered to the caller, the retry loop starts no further invocation of
\* the wrapped operation.
C22_AsStated == [][TimeoutDelivered => ~InvocationBegins]_vars

\* the second invocation was started after the caller got the timeout
C22_LateInvocation ==
    /\ TimeoutDelivered
    /\ pc = "calling"
    /\ retryI = 1
    /\ opStart > outcome.at

\* ---- where admins come from ----

HasAdmin(us) == \E k \in 1..Len(us) : us[k].role = "admin"

\* the step is createAdmin's User.create for a request that passed
\* authMiddleware and authorize with an issued, signed token of role admin
CreatedByAdmin ==
    \E r \in Slots :
        /\ req[r].pc = "create"
        /\ req[r].route = "adminCreate"
        /\ req'[r].pc = "idle"
        /\ req[r].header.prefix = "Bearer "
        /\ Genuine(req[r].header.token)
        /\ req[r].header.token \in tokens
        /\ req[r].header.token.role = "admin"
        /\ req[r].user = Decoded(req[r].header.token)

C23_Step ==
    /\ Len(users') >= Len(users)
    /\ \A k \in 1..Len(users) : users'[k].role = users[k].role
    /\ HandlerAnswers("register") /\ resp'.status = 201 =>
          /\ Len(users') = Len(users) + 1
          /\ users'[Len(users')].role = "user"
          /\ resp'.data.role = "user"
    /\ GainsAdmin => CreatedByAdmin
    /\ ~HasAdmin(users) => ~HasAdmin(users')

\* C23: public registration stores role "user" whatever the body asks for;
\* no request changes the role of a stored user; a user with role admin is
\* added only by createAdmin for a request that passed authentication and
\* authorization with an issued token of role admin; from a collection with
\* no admin no request produces one.
C23_AdminProvenance == [][C23_Step]_vars

\* a registration that asked for role admin was stored with role user, next
\* to an admin that an admin created
C23_Witness ==
    /\ resp.route = "register"
    /\ resp.status = 201
    /\ resp.body.role = "admin"
    /\ resp.data.role = "user"
    /\ users[Len(users)].role = "user"
    /\ \E k \in 2..Len(users) : users[k].role = "admin"

\* registrations succeed on a collection that never had an admin, and none
\* appears
C23_WitnessNoAdmin ==
    /\ Len(users) = 2
    /\ ~HasAdmin(users)
    /\ resp.route = "register" /\ resp.status = 201 /\ resp.body.role = "admin"
=============================================================================
